---- MODULE Spec2Model ----
(***************************************************************************)
(* Model of transform_recursion.py: the tail_recursive decorator parses    *)
(* the source of a function, lets TailRecursionTransformer rewrite a       *)
(* guarded (if) or dispatch (match) tail recursion into a `while True`     *)
(* loop, and compiles the tree into a new function.  The model keeps the   *)
(* syntax tree as records named after the ast node classes, runs the       *)
(* transformer on it, and then executes both the original function (by     *)
(* recursion, one frame per action) and the function tail_recursive        *)
(* returned (one loop iteration per action) on the same arguments.         *)
(***************************************************************************)
EXTENDS Integers, Sequences, FiniteSets, TLC

(***************************************************************************)
(* Bounds of the model.                                                    *)
(***************************************************************************)
RecursionLimit == 3        \* frames the interpreter allows (sys.getrecursionlimit, scaled down)
MaxN == RecursionLimit + 1 \* largest first argument: one more than the frames allowed
MaxAcc == 3                \* largest second argument of the first call
MaxArms == 3               \* most case arms of a match statement
MaxBelow == 2              \* exploration of a loop stops once n falls below -MaxBelow
IterCap == RecursionLimit + 1  \* the iteration counter saturates here

(***************************************************************************)
(* Syntax tree nodes (module ast).                                         *)
(***************************************************************************)
Name(id) == [kind |-> "Name", id |-> id]
Constant(v) == [kind |-> "Constant", value |-> v]
BinOp(l, op, r) == [kind |-> "BinOp", left |-> l, op |-> op, right |-> r]
Compare(l, op, r) == [kind |-> "Compare", left |-> l, op |-> op, right |-> r]
Call(f, a) == [kind |-> "Call", func |-> Name(f), args |-> a, keywords |-> <<>>]
\* a call with keyword arguments `name=value` after the positional ones
keyword(arg, value) == [arg |-> arg, value |-> value]
CallKw(f, a, kw) == [kind |-> "Call", func |-> Name(f), args |-> a, keywords |-> kw]
Tuple(elts) == [kind |-> "Tuple", elts |-> elts]
Docstring == [kind |-> "Expr", value |-> [kind |-> "Str"]]
Assign(target, value) == [kind |-> "Assign", targets |-> <<target>>, value |-> value]
Return(value) == [kind |-> "Return", value |-> value]
If(test, body, orelse) == [kind |-> "If", test |-> test, body |-> body, orelse |-> orelse]
While(test, body) == [kind |-> "While", test |-> test, body |-> body, orelse |-> <<>>]
MatchValue(v) == [kind |-> "MatchValue", value |-> v]
MatchOr(ps) == [kind |-> "MatchOr", patterns |-> ps]
MatchAs == [kind |-> "MatchAs"]
match_case(pattern, body) == [pattern |-> pattern, body |-> body]
Match(subject, cases) == [kind |-> "Match", subject |-> subject, cases |-> cases]
arguments(params, defaults) ==
    [args |-> params, defaults |-> defaults, kwonlyargs |-> <<>>, kw_defaults |-> <<>>]
\* parameters after a bare `*`, each with its default
arguments_kwonly(params, defaults, kwonly, kw_defaults) ==
    [args |-> params, defaults |-> defaults,
     kwonlyargs |-> kwonly, kw_defaults |-> kw_defaults]
FunctionDef(name, args, body) ==
    [kind |-> "FunctionDef", name |-> name, args |-> args, body |-> body]
Module(body) == [kind |-> "Module", body |-> body]

(***************************************************************************)
(* The functions handed to tail_recursive.  They are variations of the two *)
(* demo functions factorial_if and factorial_match, over parameters        *)
(* (n, acc=1).                                                             *)
(***************************************************************************)
FuncName == "f"
Signature == arguments(<<"n", "acc">>, <<Constant(1)>>)

n_minus_1 == BinOp(Name("n"), "Sub", Constant(1))
acc_times_n == BinOp(Name("acc"), "Mult", Name("n"))
Bump == Assign(Name("acc"), BinOp(Name("acc"), "Add", Constant(1)))

\* argument lists of the tail call: factorial, swap-style, one too few, one too many
FactorialArgs == <<n_minus_1, acc_times_n>>
SwapArgs == <<BinOp(Name("acc"), "Sub", Constant(1)), Name("n")>>
ArgLists == {FactorialArgs, SwapArgs, <<n_minus_1>>, <<n_minus_1, Name("acc"), Constant(0)>>}

Guard == Compare(Name("n"), "LtE", Constant(1))
FirstStmts == {<<>>, <<Docstring>>, <<Bump>>}
GuardBodies == {<<Return(Name("acc"))>>, <<Bump, Return(Name("acc"))>>, <<Bump>>}
OrElses == {<<>>, <<Return(Constant(0))>>}
MidStmts == {<<>>, <<Bump>>}
LastStmts == {Return(Call(FuncName, a)) : a \in ArgLists}
               \cup {Return(Call("abs", <<Name("n")>>)), Return(Name("acc")), Bump}

IfBodies ==
    {s0 \o <<If(Guard, gb, oe)>> \o mid \o <<last>> :
        s0 \in FirstStmts, gb \in GuardBodies, oe \in OrElses,
        mid \in MidStmts, last \in LastStmts}

BaseArm == match_case(MatchOr(<<MatchValue(Constant(0)), MatchValue(Constant(1))>>),
                      <<Return(Name("acc"))>>)
TailArmAny == match_case(MatchAs, <<Return(Call(FuncName, FactorialArgs))>>)
TailArmTwo == match_case(MatchValue(Constant(2)), <<Return(Call(FuncName, FactorialArgs))>>)
TailArmShort == match_case(MatchAs, <<Return(Call(FuncName, <<n_minus_1>>))>>)
Reset == Assign(Name("acc"), Constant(0))
AssignArm == match_case(MatchValue(Constant(3)), <<Reset>>)
LongArm == match_case(MatchValue(Constant(3)), <<Bump, Return(Name("acc"))>>)
Arms == {BaseArm, TailArmAny, TailArmTwo, TailArmShort, AssignArm, LongArm}

\* the compiler rejects an irrefutable pattern (case _) anywhere but in the last arm
ArmLists ==
    {cs \in UNION {[1..k -> Arms] : k \in 1..MaxArms} :
        \A i \in 1..(Len(cs) - 1) : cs[i].pattern.kind # "MatchAs"}

MatchBodies ==
    {s0 \o <<Match(Name("n"), cs)>> : s0 \in FirstStmts, cs \in ArmLists}

\* variations of factorial_if whose tail call passes a keyword argument:
\*   def f(n, acc=1):        ... return f(n - 1, acc=acc * n)
\*   def f(n, acc=1):        ... return f(n - 1, acc * n, extra=0)
\*   def f(n, acc=1, *, k=0): if n <= 1: return acc + k
\*                            return f(n - 1, acc * n, k=1)
\*   def f(n, acc=1, *, k=0): ... return f(n - 1, acc * n)
KwSignature == arguments_kwonly(<<"n", "acc">>, <<Constant(1)>>, <<"k">>, <<Constant(0)>>)
acc_plus_k == BinOp(Name("acc"), "Add", Name("k"))
GuardedBody(base, call) == <<Docstring, If(Guard, <<Return(base)>>, <<>>), Return(call)>>
KeywordPrograms ==
    {FunctionDef(FuncName, Signature,
        GuardedBody(Name("acc"),
                    CallKw(FuncName, <<n_minus_1>>, <<keyword("acc", acc_times_n)>>))),
     FunctionDef(FuncName, Signature,
        GuardedBody(Name("acc"),
                    CallKw(FuncName, FactorialArgs, <<keyword("extra", Constant(0))>>))),
     FunctionDef(FuncName, KwSignature,
        GuardedBody(acc_plus_k,
                    CallKw(FuncName, FactorialArgs, <<keyword("k", Constant(1))>>))),
     FunctionDef(FuncName, KwSignature,
        GuardedBody(acc_plus_k, Call(FuncName, FactorialArgs)))}

Programs ==
    {FunctionDef(FuncName, Signature, b) : b \in IfBodies \cup MatchBodies}
        \cup KeywordPrograms

(***************************************************************************)
(* TailRecursionTransformer.  A method that returns None or a new body     *)
(* returns NoBody or Body(b) here.                                         *)
(***************************************************************************)
NoBody == [some |-> FALSE, body |-> <<>>]
Body(b) == [some |-> TRUE, body |-> b]
NoStmt == [some |-> FALSE]
Stmt(s) == [some |-> TRUE, stmt |-> s]

\* ast.While(test=ast.Constant(value=True), body=..., orelse=[])
while_True(body) == While(Constant(TRUE), body)

\* the expression e with every name in DOMAIN m replaced by the expression m gives it
RECURSIVE substitute(_, _)
substitute(e, m) ==
    CASE e.kind = "Name" -> IF e.id \in DOMAIN m THEN m[e.id] ELSE e
      [] e.kind = "Constant" -> e
      [] e.kind \in {"BinOp", "Compare"} ->
            [e EXCEPT !.left = substitute(e.left, m), !.right = substitute(e.right, m)]
      [] e.kind = "Call" ->
            [e EXCEPT !.args = [i \in 1..Len(e.args) |-> substitute(e.args[i], m)]]
      [] e.kind = "Tuple" ->
            [e EXCEPT !.elts = [i \in 1..Len(e.elts) |-> substitute(e.elts[i], m)]]

\* the values of `p1 = a1; p2 = a2; ...` done one after the other, written as
\* expressions over the values the parameters had before
RECURSIVE one_by_one(_, _, _)
one_by_one(names, args, sofar) ==
    IF Len(sofar) = Len(args) THEN sofar
    ELSE LET i == Len(sofar) + 1
             m == [x \in {names[j] : j \in 1..(i - 1)} |->
                      sofar[CHOOSE j \in 1..(i - 1) : names[j] = x]]
         IN  one_by_one(names, args, Append(sofar, substitute(args[i], m)))

\* variant: the parameters are rebound one at a time, in order
make_assignment_one_by_one(funcdef_node, call_node) ==
    LET param_names == funcdef_node.args.args
    IN  IF Len(call_node.args) # Len(param_names)
        THEN NoStmt
        ELSE Stmt(Assign(Tuple([i \in 1..Len(param_names) |-> Name(param_names[i])]),
                         Tuple(one_by_one(param_names, call_node.args, <<>>))))

\* variant: no count check, zip pairs as many parameters as there are arguments
make_assignment_zip(funcdef_node, call_node) ==
    LET param_names == funcdef_node.args.args
        k == IF Len(call_node.args) < Len(param_names)
             THEN Len(call_node.args) ELSE Len(param_names)
    IN  Stmt(Assign(Tuple([i \in 1..k |-> Name(param_names[i])]),
                    Tuple([i \in 1..k |-> call_node.args[i]])))

\* the rebind `p1, ..., pk = (a1, ..., ak)`, or None on a different count
make_assignment_from_call(funcdef_node, call_node) ==
    LET param_names == funcdef_node.args.args
    IN  IF Len(call_node.args) # Len(param_names)
        THEN NoStmt
        ELSE Stmt(Assign(Tuple([i \in 1..Len(param_names) |-> Name(param_names[i])]),
                         Tuple(call_node.args)))

\* `isinstance(x, ast.Call) and isinstance(x.func, ast.Name) and x.func.id == self.func_name`
is_call_to(value, func_name) ==
    /\ value.kind = "Call"
    /\ value.func.kind = "Name"
    /\ value.func.id = func_name

\* variant: the loop keeps the `return f(...)` instead of the rebind
maybe_transform_if_keep_call(node, func_name) ==
    IF Len(node.body) # 3 THEN NoBody
    ELSE LET if_stmt == node.body[2]
             return_stmt == node.body[3]
         IN  IF ~(if_stmt.kind = "If" /\ return_stmt.kind = "Return") THEN NoBody
             ELSE IF Len(if_stmt.body) # 1 \/ if_stmt.body[1].kind # "Return" THEN NoBody
             ELSE IF if_stmt.orelse # <<>> THEN NoBody
             ELSE IF ~is_call_to(return_stmt.value, func_name) THEN NoBody
             ELSE LET condition_check == If(if_stmt.test, <<if_stmt.body[1]>>, <<>>)
                      assignment == make_assignment_from_call(node, return_stmt.value)
                  IN  IF ~assignment.some THEN NoBody
                      ELSE Body(<<while_True(<<condition_check, return_stmt>>)>>)

\* variant: an else clause of the guard is not looked at (and is dropped)
maybe_transform_if_ignore_orelse(node, func_name) ==
    IF Len(node.body) # 3 THEN NoBody
    ELSE LET if_stmt == node.body[2]
             return_stmt == node.body[3]
         IN  IF ~(if_stmt.kind = "If" /\ return_stmt.kind = "Return") THEN NoBody
             ELSE IF Len(if_stmt.body) # 1 \/ if_stmt.body[1].kind # "Return" THEN NoBody
             ELSE IF ~is_call_to(return_stmt.value, func_name) THEN NoBody
             ELSE LET condition_check == If(if_stmt.test, <<if_stmt.body[1]>>, <<>>)
                      assignment == make_assignment_from_call(node, return_stmt.value)
                  IN  IF ~assignment.some THEN NoBody
                      ELSE Body(<<while_True(<<condition_check, assignment.stmt>>)>>)

maybe_transform_if_tail_recursion(node, func_name) ==
    IF Len(node.body) # 3 THEN NoBody
    ELSE LET if_stmt == node.body[2]
             return_stmt == node.body[3]
         IN  IF ~(if_stmt.kind = "If" /\ return_stmt.kind = "Return") THEN NoBody
             ELSE IF Len(if_stmt.body) # 1 \/ if_stmt.body[1].kind # "Return" THEN NoBody
             ELSE IF if_stmt.orelse # <<>> THEN NoBody
             ELSE IF ~is_call_to(return_stmt.value, func_name) THEN NoBody
             ELSE LET condition_check == If(if_stmt.test, <<if_stmt.body[1]>>, <<>>)
                      assignment == make_assignment_from_call(node, return_stmt.value)
                  IN  IF ~assignment.some THEN NoBody
                      ELSE Body(<<while_True(<<condition_check, assignment.stmt>>)>>)

\* a case whose body is the single statement `return func_name(...)`
is_tail_call_case(c, func_name) ==
    /\ Len(c.body) = 1
    /\ c.body[1].kind = "Return"
    /\ is_call_to(c.body[1].value, func_name)

\* the scan over match_stmt.cases from position idx on: the index of the tail
\* call case, -1 when there is none, MultipleTailCalls when a second one is met
MultipleTailCalls == -2
\* variant: a later tail call case replaces the one found before
RECURSIVE find_last_tail_call_case(_, _, _, _)
find_last_tail_call_case(cases, func_name, idx, tail_call_case_idx) ==
    IF idx > Len(cases) THEN tail_call_case_idx
    ELSE IF is_tail_call_case(cases[idx], func_name)
         THEN find_last_tail_call_case(cases, func_name, idx + 1, idx)
         ELSE find_last_tail_call_case(cases, func_name, idx + 1, tail_call_case_idx)

RECURSIVE find_tail_call_case(_, _, _, _)
find_tail_call_case(cases, func_name, idx, tail_call_case_idx) ==
    IF idx > Len(cases) THEN tail_call_case_idx
    ELSE IF is_tail_call_case(cases[idx], func_name)
         THEN IF tail_call_case_idx # -1 THEN MultipleTailCalls
              ELSE find_tail_call_case(cases, func_name, idx + 1, idx)
         ELSE find_tail_call_case(cases, func_name, idx + 1, tail_call_case_idx)

maybe_transform_match_tail_recursion(node, func_name) ==
    IF Len(node.body) # 2 THEN NoBody
    ELSE LET match_stmt == node.body[2]
         IN  IF match_stmt.kind # "Match" THEN NoBody
             ELSE LET tail_call_case_idx ==
                          find_tail_call_case(match_stmt.cases, func_name, 1, -1)
                  IN  IF tail_call_case_idx = MultipleTailCalls THEN NoBody
                      ELSE IF tail_call_case_idx = -1 THEN NoBody
                      ELSE LET tail_call_case == match_stmt.cases[tail_call_case_idx]
                               call_node == tail_call_case.body[1].value
                               assignment == make_assignment_from_call(node, call_node)
                           IN  IF ~assignment.some THEN NoBody
                               ELSE Body(<<while_True(<<
                                      [match_stmt EXCEPT
                                         !.cases[tail_call_case_idx].body =
                                             <<assignment.stmt>>]
                                    >>)>>)

\* variant: only the if shape is attempted
visit_FunctionDef_if_only(node, func_name) ==
    IF node.name # func_name THEN node
    ELSE LET if_body == maybe_transform_if_tail_recursion(node, func_name)
         IN  IF if_body.some THEN [node EXCEPT !.body = if_body.body]
             ELSE node

\* variant: node.body is assigned whatever the if-shape attempt returned
visit_FunctionDef_always_assign(node, func_name) ==
    IF node.name # func_name THEN node
    ELSE [node EXCEPT !.body = maybe_transform_if_tail_recursion(node, func_name).body]

\* the node visit_FunctionDef returns (the node it was given, its body replaced
\* when one of the two shapes is found)
visit_FunctionDef(node, func_name) ==
    IF node.name # func_name THEN node
    ELSE LET if_body == maybe_transform_if_tail_recursion(node, func_name)
             match_body == maybe_transform_match_tail_recursion(node, func_name)
         IN  IF if_body.some THEN [node EXCEPT !.body = if_body.body]
             ELSE IF match_body.some THEN [node EXCEPT !.body = match_body.body]
             ELSE node

(***************************************************************************)
(* Source text and parsing.  A source text is a sequence of lines: the     *)
(* decorator line, the `def` line, and one (indented) line per statement   *)
(* of the body.                                                            *)
(***************************************************************************)
DecoratorLine == [line |-> "decorator"]
DefLine(name, args) == [line |-> "def", name |-> name, args |-> args]
StmtLine(s) == [line |-> "stmt", stmt |-> s]

\* inspect.getsource reads the text of a function from the file its code was
\* compiled from; code compiled with filename="<ast>" has no such file, and
\* getsource raises OSError
has_source(f) == f.file # "<ast>"

\* inspect.getsource(func), dedented
getsource(f) ==
    (IF f.decorated THEN <<DecoratorLine>> ELSE <<>>)
        \o <<DefLine(f.node.name, f.node.args)>>
        \o [i \in 1..Len(f.node.body) |-> StmtLine(f.node.body[i])]

\* ast.parse: a text that starts with an indented line is rejected; a `def`
\* line followed by its indented statements gives a module with one FunctionDef
parse(source) ==
    IF source = <<>> THEN [error |-> "none", tree |-> Module(<<>>)]
    ELSE IF Head(source).line = "stmt"
         THEN [error |-> "IndentationError", tree |-> Module(<<>>)]
    ELSE IF Head(source).line = "decorator"
         THEN [error |-> "OSError", tree |-> Module(<<>>)]
    ELSE [error |-> "none",
          tree |-> Module(<<FunctionDef(Head(source).name, Head(source).args,
                        [i \in 1..(Len(source) - 1) |-> source[i + 1].stmt])>>)]

\* NodeTransformer.visit on the module: every FunctionDef goes to visit_FunctionDef
visit(tree, func_name) ==
    [tree EXCEPT !.body = [i \in 1..Len(tree.body) |->
                              visit_FunctionDef(tree.body[i], func_name)]]

(***************************************************************************)
(* Execution of a function body.  Values are integers; a function returns  *)
(* an integer or None.                                                     *)
(***************************************************************************)
PyInt(v) == [none |-> FALSE, v |-> v]
PyNone == [none |-> TRUE, v |-> 0]

RECURSIVE Eval(_, _)
Eval(e, env) ==
    CASE e.kind = "Name" -> env[e.id]
      [] e.kind = "Constant" -> e.value
      [] e.kind = "BinOp" ->
            LET l == Eval(e.left, env)
                r == Eval(e.right, env)
            IN  (CASE e.op = "Add" -> l + r
                   [] e.op = "Sub" -> l - r
                   [] e.op = "Mult" -> l * r)
      [] e.kind = "Compare" -> Eval(e.left, env) <= Eval(e.right, env)
      [] e.kind = "Tuple" -> [i \in 1..Len(e.elts) |-> Eval(e.elts[i], env)]
      [] e.kind = "Call" ->
            LET x == Eval(e.args[1], env) IN IF x < 0 THEN 0 - x ELSE x

RECURSIVE matches(_, _)
matches(pattern, subject) ==
    CASE pattern.kind = "MatchValue" -> subject = pattern.value.value
      [] pattern.kind = "MatchOr" ->
            \E i \in 1..Len(pattern.patterns) : matches(pattern.patterns[i], subject)
      [] pattern.kind = "MatchAs" -> TRUE

\* an assignment: the value is evaluated first, then the targets are bound
ExecAssign(s, env) ==
    LET target == s.targets[1]
        value == Eval(s.value, env)
    IN  IF target.kind = "Name" THEN [env EXCEPT ![target.id] = value]
        ELSE [x \in DOMAIN env |->
                IF \E i \in 1..Len(target.elts) : target.elts[i].id = x
                THEN value[CHOOSE i \in 1..Len(target.elts) :
                              /\ target.elts[i].id = x
                              /\ \A j \in (i + 1)..Len(target.elts) : target.elts[j].id # x]
                ELSE env[x]]

\* how a block of statements ends: with a return of a value, with a return of
\* a call to the function itself (its argument values evaluated), or by
\* running off its end
Returned(val) ==
    [tag |-> "return", val |-> val, args |-> <<>>, kwargs |-> <<>>, env |-> <<>>]
Calls(args, kwargs) ==
    [tag |-> "call", val |-> PyNone, args |-> args, kwargs |-> kwargs, env |-> <<>>]
Falls(env) ==
    [tag |-> "fall", val |-> PyNone, args |-> <<>>, kwargs |-> <<>>, env |-> env]

first_match(cases, subject) ==
    IF \E i \in 1..Len(cases) : matches(cases[i].pattern, subject)
    THEN CHOOSE i \in 1..Len(cases) :
            /\ matches(cases[i].pattern, subject)
            /\ \A j \in 1..(i - 1) : ~matches(cases[j].pattern, subject)
    ELSE 0

RECURSIVE Exec(_, _, _)
Exec(stmts, env, self) ==
    IF stmts = <<>> THEN Falls(env)
    ELSE LET s == Head(stmts)
             rest == Tail(stmts)
         IN  CASE s.kind = "Expr" -> Exec(rest, env, self)
               [] s.kind = "Assign" -> Exec(rest, ExecAssign(s, env), self)
               [] s.kind = "Return" ->
                     IF is_call_to(s.value, self)
                     THEN Calls([i \in 1..Len(s.value.args) |-> Eval(s.value.args[i], env)],
                                [i \in 1..Len(s.value.keywords) |->
                                    keyword(s.value.keywords[i].arg,
                                            Eval(s.value.keywords[i].value, env))])
                     ELSE Returned(PyInt(Eval(s.value, env)))
               [] s.kind = "If" ->
                     LET o == Exec(IF Eval(s.test, env) THEN s.body ELSE s.orelse, env, self)
                     IN  IF o.tag = "fall" THEN Exec(rest, o.env, self) ELSE o
               [] s.kind = "Match" ->
                     LET i == first_match(s.cases, Eval(s.subject, env))
                         o == IF i = 0 THEN Falls(env) ELSE Exec(s.cases[i].body, env, self)
                     IN  IF o.tag = "fall" THEN Exec(rest, o.env, self) ELSE o

\* binding of the argument values of a call to the parameters: positional
\* values fill the plain parameters in order, keyword values go to the
\* parameter of that name (plain or keyword-only), defaults fill the rest.
\* TypeError: too many positional values, a keyword that names no parameter
\* or one already filled, a parameter left without value and without default
bind(args, values, kwargs) ==
    LET np == Len(args.args)
        nd == Len(args.defaults)
        plain == {args.args[i] : i \in 1..np}
        kwonly == {args.kwonlyargs[i] : i \in 1..Len(args.kwonlyargs)}
        named == {kwargs[i].arg : i \in 1..Len(kwargs)}
        filled == {args.args[i] : i \in 1..(IF Len(values) < np THEN Len(values) ELSE np)}
    IN  IF \/ Len(values) > np
           \/ named \ (plain \cup kwonly) # {}
           \/ named \cap filled # {}
           \/ \E i \in 1..(np - nd) : args.args[i] \notin filled \cup named
        THEN [error |-> "TypeError", env |-> <<>>]
        ELSE [error |-> "none",
              env |-> [x \in plain \cup kwonly |->
                         IF x \in named
                         THEN kwargs[CHOOSE k \in 1..Len(kwargs) : kwargs[k].arg = x].value
                         ELSE IF x \in plain
                         THEN LET i == CHOOSE k \in 1..np : args.args[k] = x
                              IN  IF i <= Len(values) THEN values[i]
                                  ELSE Eval(args.defaults[i - (np - nd)], <<>>)
                         ELSE LET i == CHOOSE k \in 1..Len(args.kwonlyargs) :
                                           args.kwonlyargs[k] = x
                              IN  Eval(args.kw_defaults[i], <<>>)]]

(***************************************************************************)
(* State.                                                                  *)
(***************************************************************************)
VARIABLES
    func,       \* the function object handed to tail_recursive
    pc,         \* position of tail_recursive: called, parsed, visited, returned, raised
    raised,     \* the exception tail_recursive let through, "none" otherwise
    parsed,     \* the tree as ast.parse built it
    tree,       \* the tree, as the transformer leaves it
    compiled,   \* number of times the tree was compiled and executed
    new_func,   \* the function object tail_recursive returned
    call_args,  \* the argument values both functions are called with
    orig_run,   \* the call of the original function
    new_run     \* the call of the returned function

vars == <<func, pc, raised, parsed, tree, compiled, new_func, call_args, orig_run, new_run>>

\* State of rewrite_gen.py (practical_serializable_generator): the objects a
\* program using one PracticalStateMachine class holds.
VARIABLES
    factory,    \* the generator function the class was made for (func)
    machines,   \* the PracticalStateMachine instances, in order of creation
    lists,      \* the list objects: an instance and a state dict refer to one by its index
    states,     \* the dict get_state returned last, if any (a sequence of 0 or 1)
    taken,      \* what the instance held when that dict was returned
    texts,      \* the string to_json returned last, if any (a sequence of 0 or 1)
    encoded,    \* what the instance held when that string was returned
    ret         \* the last call made and what it gave back

wvars == <<factory, machines, lists, states, taken, texts, encoded, ret>>

\* State of rewrite_gen.py (code_transform_generator): the objects a program
\* using one GeneratorStateMachine class holds.
VARIABLES
    gen,        \* the generator function the class was made for (its FunctionDef)
    gmachines,  \* the GeneratorStateMachine instances, in order of creation
    gtrace,     \* per instance: the arguments it was created with, what its
                \* __next__ calls gave back so far, whether it was restored
    gsaved,     \* the dict get_state or the string to_json returned last, if
                \* any, with the instance as it was then (a sequence of 0 or 1)
    gret        \* the last call made and what it gave back

gvars == <<gen, gmachines, gtrace, gsaved, gret>>

\* State of zip_list_1.py and zip_list_2.py: one call of recursive_zip and one
\* call of iterative_zip on the same arguments.
VARIABLES
    zargs,      \* the arguments list1, list2, shape
    rec_out,    \* how recursive_zip ended, once called
    it_pc,      \* position of iterative_zip: idle, loop, done
    queue,      \* its deque
    objects,    \* the list objects it created: a queue item refers to its parent by index
    result,     \* its variable result
    it_out      \* how iterative_zip ended

zvars == <<zargs, rec_out, it_pc, queue, objects, result, it_out>>

allvars == <<vars, wvars, gvars, zvars>>

Nothing == [none |-> 0]
NoCall == [calls |-> 0, op |-> "none", m |-> 0, arg |-> 0,
           outcome |-> "none", value |-> Nothing]
\* no PracticalStateMachine class in use
NoWrappers ==
    /\ factory = "none"
    /\ machines = <<>>
    /\ lists = <<>>
    /\ states = <<>>
    /\ taken = <<>>
    /\ texts = <<>>
    /\ encoded = <<>>
    /\ ret = NoCall

\* no GeneratorStateMachine class in use
NoGenerators ==
    /\ gen = "none"
    /\ gmachines = <<>>
    /\ gtrace = <<>>
    /\ gsaved = <<>>
    /\ gret = NoCall
\* no call of the zip functions
NoZip ==
    /\ zargs = "none"
    /\ rec_out = Nothing
    /\ it_pc = "idle"
    /\ queue = <<>>
    /\ objects = <<>>
    /\ result = Nothing
    /\ it_out = Nothing

NoFunction == [object |-> "none", name |-> "", doc |-> FALSE,
               args |-> arguments(<<>>, <<>>), body |-> <<>>]
Idle == [status |-> "idle", env |-> <<>>, depth |-> 0, iters |-> 0,
         at |-> "entry", result |-> PyNone, via |-> "none"]

\* the statement sequence a `def` of the node evaluates to, as a function object
function_object(object, node, doc) ==
    [object |-> object, name |-> node.name, doc |-> doc,
     args |-> node.args, body |-> node.body]

has_docstring(node) == node.body # <<>> /\ node.body[1] = Docstring

Init ==
    /\ func \in {[name |-> p.name, decorated |-> d, node |-> p,
                  doc |-> has_docstring(p), file |-> "module"] :
                     p \in Programs, d \in BOOLEAN}
    /\ pc = "called"
    /\ raised = "none"
    /\ parsed = Module(<<>>)
    /\ tree = Module(<<>>)
    /\ compiled = 0
    /\ new_func = NoFunction
    /\ call_args = <<>>
    /\ orig_run = Idle
    /\ new_run = Idle
    /\ NoWrappers
    /\ NoGenerators
    /\ NoZip

(***************************************************************************)
(* tail_recursive(func)                                                    *)
(***************************************************************************)
\* source = getsource(func) without its first line; tree = ast.parse(source)
ParseSource ==
    /\ pc = "called"
    /\ LET source == Tail(getsource(func))
           r == parse(source)
       IN  IF ~has_source(func)
           THEN /\ pc' = "raised"
                /\ raised' = "OSError"
                /\ UNCHANGED <<parsed, tree>>
           ELSE IF r.error # "none"
           THEN /\ pc' = "raised"
                /\ raised' = r.error
                /\ UNCHANGED <<parsed, tree>>
           ELSE /\ pc' = "parsed"
                /\ parsed' = r.tree
                /\ tree' = r.tree
                /\ UNCHANGED raised
    /\ UNCHANGED <<func, compiled, new_func, call_args, orig_run, new_run>>
    /\ UNCHANGED wvars
    /\ UNCHANGED <<gvars, zvars>>

\* transformer.visit(tree); ast.fix_missing_locations
Visit ==
    /\ pc = "parsed"
    /\ tree' = visit(tree, func.name)
    /\ pc' = "visited"
    /\ UNCHANGED <<func, raised, parsed, compiled, new_func, call_args, orig_run, new_run>>
    /\ UNCHANGED wvars
    /\ UNCHANGED <<gvars, zvars>>

\* compile, exec in func.__globals__, namespace[func.__name__], metadata copy
Materialize ==
    /\ pc = "visited"
    /\ compiled' = compiled + 1
    /\ IF \E i \in 1..Len(tree.body) : tree.body[i].name = func.name
       THEN /\ new_func' = function_object("new_func",
                              tree.body[CHOOSE i \in 1..Len(tree.body) :
                                            tree.body[i].name = func.name],
                              func.doc)
            /\ pc' = "returned"
            /\ UNCHANGED raised
       ELSE /\ pc' = "raised"
            /\ raised' = "KeyError"
            /\ UNCHANGED new_func
    /\ UNCHANGED <<func, parsed, tree, call_args, orig_run, new_run>>
    /\ UNCHANGED wvars
    /\ UNCHANGED <<gvars, zvars>>

\* tail_recursive(new_func): the function that was returned is handed to
\* tail_recursive, before it is called.  Its code was compiled from the tree
\* under the file name "<ast>".
ApplyAgain ==
    /\ pc = "returned"
    /\ has_source(func)
    /\ orig_run.status = "idle"
    /\ func' = [name |-> new_func.name, decorated |-> FALSE,
                node |-> FunctionDef(new_func.name, new_func.args, new_func.body),
                doc |-> new_func.doc, file |-> "<ast>"]
    /\ pc' = "called"
    /\ UNCHANGED <<raised, parsed, tree, compiled, new_func, call_args, orig_run, new_run>>
    /\ UNCHANGED wvars
    /\ UNCHANGED <<gvars, zvars>>

(***************************************************************************)
(* Calls of the original function and of the returned function.            *)
(***************************************************************************)
Entry(env) == [status |-> "running", env |-> env, depth |-> 1, iters |-> 0,
               at |-> "entry", result |-> PyNone, via |-> "none"]

is_loop(body) == Len(body) = 1 /\ body[1].kind = "While"

\* one execution of a function body in the current frame: the frame returns
\* (and with it, every frame below, each being `return f(...)`), or calls f
FrameStep(run, f) ==
    LET o == Exec(f.body, run.env, f.name)
    IN  CASE o.tag = "return" ->
                [run EXCEPT !.status = "returned", !.result = o.val, !.via = "return"]
          [] o.tag = "fall" ->
                [run EXCEPT !.status = "returned", !.result = PyNone, !.via = "end"]
          [] o.tag = "call" ->
                IF run.depth >= RecursionLimit
                THEN [run EXCEPT !.status = "RecursionError"]
                ELSE LET b == bind(f.args, o.args, o.kwargs)
                     IN  IF b.error # "none"
                         THEN [run EXCEPT !.status = b.error]
                         ELSE [run EXCEPT !.env = b.env, !.depth = @ + 1]

\* expected = original(*call_args)
CallOriginal ==
    /\ pc = "returned"
    /\ orig_run.status = "idle"
    /\ \E n \in 0..MaxN, acc \in 1..MaxAcc :
          /\ call_args' = <<n, acc>>
          /\ orig_run' = Entry(bind(func.node.args, <<n, acc>>, <<>>).env)
    /\ UNCHANGED <<func, pc, raised, parsed, tree, compiled, new_func, new_run>>
    /\ UNCHANGED wvars
    /\ UNCHANGED <<gvars, zvars>>

OriginalStep ==
    /\ orig_run.status = "running"
    /\ orig_run' = FrameStep(orig_run, function_object("func", func.node, func.doc))
    /\ UNCHANGED <<func, pc, raised, parsed, tree, compiled, new_func, call_args, new_run>>
    /\ UNCHANGED wvars
    /\ UNCHANGED <<gvars, zvars>>

\* actual = new_func(*call_args)
CallNew ==
    /\ orig_run.status \notin {"idle", "running"}
    /\ new_run.status = "idle"
    /\ new_run' = [Entry(bind(new_func.args, call_args, <<>>).env)
                      EXCEPT !.at = IF is_loop(new_func.body) THEN "test" ELSE "entry"]
    /\ UNCHANGED <<func, pc, raised, parsed, tree, compiled, new_func, call_args, orig_run>>
    /\ UNCHANGED wvars
    /\ UNCHANGED <<gvars, zvars>>

\* the returned function was not rewritten: it recurses as the original does
NewStep ==
    /\ new_run.status = "running"
    /\ new_run.at = "entry"
    /\ new_run' = FrameStep(new_run, new_func)
    /\ UNCHANGED <<func, pc, raised, parsed, tree, compiled, new_func, call_args, orig_run>>
    /\ UNCHANGED wvars
    /\ UNCHANGED <<gvars, zvars>>

\* `while True:` evaluates its test and enters the body
LoopTest ==
    /\ new_run.status = "running"
    /\ new_run.at = "test"
    /\ new_run.env["n"] >= 0 - MaxBelow
    /\ new_run' = IF Eval(new_func.body[1].test, new_run.env)
                  THEN [new_run EXCEPT !.at = "body"]
                  ELSE [new_run EXCEPT !.status = "returned", !.via = "end"]
    /\ UNCHANGED <<func, pc, raised, parsed, tree, compiled, new_func, call_args, orig_run>>
    /\ UNCHANGED wvars
    /\ UNCHANGED <<gvars, zvars>>

\* one execution of the loop body: it returns, or calls f, or reaches its end
\* and goes back to the test
LoopBody ==
    /\ new_run.status = "running"
    /\ new_run.at = "body"
    /\ LET o == Exec(new_func.body[1].body, new_run.env, new_func.name)
       IN  new_run' =
             CASE o.tag = "return" ->
                    [new_run EXCEPT !.status = "returned", !.result = o.val, !.via = "return"]
               [] o.tag = "fall" ->
                    [new_run EXCEPT !.env = o.env, !.at = "test",
                                    !.iters = IF @ < IterCap THEN @ + 1 ELSE @]
               [] o.tag = "call" ->
                    IF new_run.depth >= RecursionLimit
                    THEN [new_run EXCEPT !.status = "RecursionError"]
                    ELSE LET b == bind(new_func.args, o.args, o.kwargs)
                         IN  IF b.error # "none"
                             THEN [new_run EXCEPT !.status = b.error]
                             ELSE [new_run EXCEPT !.env = b.env, !.depth = @ + 1,
                                                  !.at = "test"]
    /\ UNCHANGED <<func, pc, raised, parsed, tree, compiled, new_func, call_args, orig_run>>
    /\ UNCHANGED wvars
    /\ UNCHANGED <<gvars, zvars>>

Next ==
    \/ ParseSource
    \/ Visit
    \/ Materialize
    \/ ApplyAgain
    \/ CallOriginal
    \/ OriginalStep
    \/ CallNew
    \/ NewStep
    \/ LoopTest
    \/ LoopBody

Spec == Init /\ [][Next]_allvars

\* the interpreter keeps running a function that has not returned
FairSpec == Spec /\ WF_vars(Next)

(***************************************************************************)
(* Properties.                                                             *)
(***************************************************************************)
Visited == pc \in {"visited", "returned"}
\* the function definition as parsed, and as the transformer left it
ParsedDef == parsed.body[1]
TreeDef == tree.body[1]
\* the transformer replaced the body by a loop
Recognized == Visited /\ is_loop(TreeDef.body)
RecognizedIf == Recognized /\ TreeDef.body[1].body[1].kind = "If"
RecognizedMatch == Recognized /\ TreeDef.body[1].body[1].kind = "Match"
Unrecognized == Visited /\ ~is_loop(TreeDef.body)

ReturnsTailCall(s) ==
    /\ s.kind = "Return"
    /\ s.value.kind = "Call"
    /\ s.value.func = Name(func.name)
TailCallArm(c) == Len(c.body) = 1 /\ ReturnsTailCall(c.body[1])
\* the match statements of the parsed body and the tail-call arms of one
MatchPositions == {i \in 1..Len(ParsedDef.body) : ParsedDef.body[i].kind = "Match"}
TailCallArms(m) == {i \in 1..Len(m.cases) : TailCallArm(m.cases[i])}
\* the calls `return f(...)` of the parsed body: its last statement, the arms
TailCalls ==
    {ParsedDef.body[i].value : i \in {j \in 1..Len(ParsedDef.body) :
                                        ReturnsTailCall(ParsedDef.body[j])}}
    \cup UNION {{ParsedDef.body[i].cases[k].body[1].value :
                    k \in TailCallArms(ParsedDef.body[i])} : i \in MatchPositions}
\* the body without a leading docstring
Meaningful(body) ==
    IF body # <<>> /\ body[1] = Docstring THEN Tail(body) ELSE body

\* C1: for every recognized function and every argument tuple on which the
\* original recursion reaches a base case (returns through a return statement),
\* the transformed loop returns exactly the value the original returns.
C1_SameResult ==
    (Recognized /\ orig_run.status = "returned" /\ orig_run.via = "return"
        /\ new_run.status = "returned")
    => new_run.result = orig_run.result

\* C2: whenever the original function returns on an input, the function
\* tail_recursive gave back for it returns on that input too.
C2_LoopTerminates ==
    (orig_run.status = "returned") ~> (new_run.status = "returned")

\* C3: the rebind is simultaneous: a loop iteration that executes the rebind
\* gives every parameter the value of its tail-call argument expression
\* evaluated with the parameter values held before the rebind.
RebindStep ==
    /\ Recognized
    /\ new_run.status = "running" /\ new_run.at = "body"
    /\ new_run'.status = "running" /\ new_run'.at = "test"
    /\ \/ RecognizedIf
       \/ /\ RecognizedMatch
          /\ LET m == ParsedDef.body[2]
             IN  first_match(m.cases, Eval(m.subject, new_run.env)) \in TailCallArms(m)
TheTailCall == CHOOSE c \in TailCalls : TRUE
C3_SimultaneousRebind ==
    [][RebindStep =>
          \A i \in 1..Len(ParsedDef.args.args) :
              new_run'.env[ParsedDef.args.args[i]] = Eval(TheTailCall.args[i], new_run.env)]_vars
C3_Witness ==
    /\ RecognizedIf
    /\ TheTailCall.args = SwapArgs
    /\ new_run.status = "returned"
    /\ new_run.iters >= 2

\* C4: a body with a match statement of which zero arms, or two or more arms,
\* are a tail call to the function itself is Unrecognized and left unchanged.
C4_ExactlyOneTailArm ==
    Visited =>
        \A i \in MatchPositions :
            Cardinality(TailCallArms(ParsedDef.body[i])) # 1
                => (Unrecognized /\ tree = parsed)
C4_Witness ==
    /\ pc = "returned"
    /\ has_docstring(ParsedDef)
    /\ \E i \in MatchPositions : Cardinality(TailCallArms(ParsedDef.body[i])) = 2
    /\ tree = parsed

\* C5: in both shapes a tail call whose number of arguments differs from the
\* number of parameters makes the function Unrecognized: the tree is left as
\* parsed, with no loop and no rebind in it.
C5_ArityMismatch ==
    (Visited /\ \E c \in TailCalls : Len(c.args) # Len(ParsedDef.args.args))
    => (Unrecognized /\ tree = parsed)
C5_Witness ==
    /\ pc = "returned"
    /\ \E a \in ArgLists :
          /\ Len(a) # Len(ParsedDef.args.args)
          /\ ParsedDef.body = <<Docstring, If(Guard, <<Return(Name("acc"))>>, <<>>),
                                Return(Call(FuncName, a))>>
    /\ tree = parsed

\* C6: a body is recognized as the guarded shape only if, a leading docstring
\* aside, it is the guard `if` (a single return, no else) followed by the
\* tail-call return and nothing else.
C6_GuardedOnly ==
    RecognizedIf =>
        LET b == Meaningful(ParsedDef.body)
        IN  /\ Len(b) = 2
            /\ b[1].kind = "If"
            /\ Len(b[1].body) = 1 /\ b[1].body[1].kind = "Return"
            /\ b[1].orelse = <<>>
            /\ ReturnsTailCall(b[2])

\* C7: a dispatch body is recognized only if every arm of the match statement
\* is a single return statement.
C7_AllArmsReturn ==
    RecognizedMatch =>
        \A i \in MatchPositions : \A k \in 1..Len(ParsedDef.body[i].cases) :
            LET arm == ParsedDef.body[i].cases[k]
            IN  Len(arm.body) = 1 /\ arm.body[1].kind = "Return"

\* C8 as stated: when no shape is recognized the tree is not compiled and
\* executed, and the function handed back is the original function object.
C8_NotMaterialized ==
    (pc = "returned" /\ Unrecognized) => (compiled = 0 /\ new_func.object = "func")
\* C8 as amended: when no shape is recognized the unchanged tree is still
\* compiled and executed, once, and the function handed back is a new function
\* object with the parameters and the body of the original.
C8_MaterializedUnchanged ==
    (pc = "returned" /\ Unrecognized)
    => /\ compiled = 1
       /\ new_func.object = "new_func"
       /\ new_func.args = func.node.args
       /\ new_func.body = func.node.body
C8_Witness ==
    /\ pc = "returned" /\ Unrecognized
    /\ new_run.status = "returned"

\* C9: tail_recursive never lets an error through to its caller, whether or
\* not the source of the function begins with a decorator line.
C9_NoError == pc # "raised" /\ raised = "none"

\* C10: a call of a transformed function stays one frame deep through all its
\* loop iterations.
C10_OneFrame ==
    (Recognized /\ new_run.status # "idle") => new_run.depth = 1
C10_Witness ==
    /\ Recognized
    /\ orig_run.status = "RecursionError"
    /\ new_run.status = "returned"
    /\ new_run.iters >= RecursionLimit

(***************************************************************************)
(* rewrite_gen.py, practical_serializable_generator: PracticalStateMachine *)
(* wraps a generator function; it counts and records what the generator    *)
(* yields, and is restored by creating the generator again and advancing   *)
(* it step_count times.                                                    *)
(***************************************************************************)
MaxMachines == 2     \* instances created
MaxCalls == 6        \* calls made on the instances, their creation included
MaxCount == 2        \* largest argument of fibonacci

\* Python values: int, str, bool, list, tuple, dict (its items in insertion
\* order) and, as a kind json has no encoding for, set (kept as its str() text)
py_int(n) == [int |-> n]
py_str(x) == [str |-> x]
py_bool(b) == [bool |-> b]
py_list(xs) == [list |-> xs]
py_tuple(xs) == [tuple |-> xs]
py_dict(pairs) == [dict |-> pairs]
py_set(text) == [set |-> text]
type(x) == CHOOSE k \in DOMAIN x : TRUE

\* the elements of a list or a tuple
items(x) == IF type(x) = "list" THEN x.list ELSE x.tuple

\* the generator functions: fibonacci(count), and each(data), which yields the
\* elements of data one by one
RECURSIVE fib(_)
fib(i) == IF i < 2 THEN i ELSE fib(i - 1) + fib(i - 2)

lookup(d, key) ==
    d.dict[CHOOSE i \in 1..Len(d.dict) : d.dict[i][1] = key][2]

\* the values func(*args, **kwargs) yields, in order
Elements(f, args, kwargs) ==
    IF f = "fibonacci"
    THEN LET count == IF Len(items(args)) >= 1 THEN items(args)[1].int
                      ELSE lookup(kwargs, py_str("count")).int
         IN  [i \in 1..count |-> py_int(fib(i - 1))]
    ELSE LET data == IF Len(items(args)) >= 1 THEN items(args)[1]
                     ELSE lookup(kwargs, py_str("data"))
         IN  items(data)

\* the calls PracticalStateMachine(*args, **kwargs) of the model
NoKwargs == py_dict(<<>>)
IntKeyed == py_dict(<<<<py_int(1), py_int(10)>>>>)
Constructions(f) ==
    IF f = "fibonacci"
    THEN {[args |-> py_tuple(<<py_int(c)>>), kwargs |-> NoKwargs] : c \in 1..MaxCount}
           \cup {[args |-> py_tuple(<<>>),
                  kwargs |-> py_dict(<<<<py_str("count"), py_int(2)>>>>)]}
    ELSE {[args |-> py_tuple(<<py_list(d)>>), kwargs |-> NoKwargs] :
             d \in {<<py_int(5), py_str("a")>>,
                    <<IntKeyed, py_tuple(<<py_int(1), py_int(2)>>)>>,
                    <<py_set("{1, 2}"), py_int(5)>>}}

(***************************************************************************)
(* json.dumps(obj, default=str) and json.loads, on the text as a tree.     *)
(***************************************************************************)
j_number(n) == [number |-> n]
j_string(x) == [string |-> x]
j_bool(b) == [boolean |-> b]
j_array(xs) == [array |-> xs]
j_object(members) == [object |-> members]
j_null == [null |-> 0]
j_TypeError == [TypeError |-> 0]

\* the key of a JSON object member: a str key as it is, an int key as its digits
json_key(k) == IF type(k) = "int" THEN ToString(k.int) ELSE k.str

\* json.dumps: values json cannot encode go through default (str) when there
\* is one, and are a TypeError when there is none
RECURSIVE json_dumps(_, _)
json_dumps(x, default_str) ==
    CASE type(x) = "int" -> j_number(x.int)
      [] type(x) = "str" -> j_string(x.str)
      [] type(x) = "bool" -> j_bool(x.bool)
      [] type(x) \in {"list", "tuple"} ->
            j_array([i \in 1..Len(items(x)) |-> json_dumps(items(x)[i], default_str)])
      [] type(x) = "dict" ->
            j_object([i \in 1..Len(x.dict) |->
                        <<json_key(x.dict[i][1]), json_dumps(x.dict[i][2], default_str)>>])
      [] type(x) = "set" -> IF default_str THEN j_string(x.set) ELSE j_TypeError
      [] type(x) = "none" -> j_null

RECURSIVE json_failed(_)
json_failed(jv) ==
    CASE type(jv) = "TypeError" -> TRUE
      [] type(jv) = "array" -> \E i \in 1..Len(jv.array) : json_failed(jv.array[i])
      [] type(jv) = "object" -> \E i \in 1..Len(jv.object) : json_failed(jv.object[i][2])
      [] OTHER -> FALSE

RECURSIVE json_loads(_)
json_loads(jv) ==
    CASE type(jv) = "number" -> py_int(jv.number)
      [] type(jv) = "string" -> py_str(jv.string)
      [] type(jv) = "boolean" -> py_bool(jv.boolean)
      [] type(jv) = "null" -> Nothing
      [] type(jv) = "array" ->
            py_list([i \in 1..Len(jv.array) |-> json_loads(jv.array[i])])
      [] type(jv) = "object" ->
            py_dict([i \in 1..Len(jv.object) |->
                       <<py_str(jv.object[i][1]), json_loads(jv.object[i][2])>>])

(***************************************************************************)
(* PracticalStateMachine                                                   *)
(***************************************************************************)
\* _reset: self.generator = self.func(*self.args, **self.kwargs)
reset(m) ==
    [m EXCEPT !.generator = [elems |-> Elements(factory, m.args, m.kwargs), pos |-> 0]]

\* __init__, values_yielded being the new list object r
init(c, r) ==
    reset([args |-> c.args, kwargs |-> c.kwargs, values_yielded |-> r,
           step_count |-> 0, exhausted |-> FALSE,
           generator |-> [elems |-> <<>>, pos |-> 0]])

Raised(m, heap) == [machine |-> m, lists |-> heap, outcome |-> "StopIteration",
                    value |-> Nothing]

\* variant: the value is counted but not recorded
dunder_next_no_append(m, heap) ==
    IF m.exhausted THEN Raised(m, heap)
    ELSE IF m.generator.pos < Len(m.generator.elems)
         THEN LET value == m.generator.elems[m.generator.pos + 1]
              IN  [machine |-> [m EXCEPT !.generator.pos = @ + 1, !.step_count = @ + 1],
                   lists |-> heap, outcome |-> "value", value |-> value]
         ELSE Raised([m EXCEPT !.exhausted = TRUE], heap)

\* variant: the exhausted flag is not looked at
dunder_next_no_flag(m, heap) ==
    IF m.generator.pos < Len(m.generator.elems)
    THEN LET value == m.generator.elems[m.generator.pos + 1]
         IN  [machine |-> [m EXCEPT !.generator.pos = @ + 1, !.step_count = @ + 1],
              lists |-> [heap EXCEPT ![m.values_yielded] = Append(@, value)],
              outcome |-> "value", value |-> value]
    ELSE Raised([m EXCEPT !.exhausted = TRUE], heap)

\* __next__: the instance and the list objects after the call, and its outcome
dunder_next(m, heap) ==
    IF m.exhausted THEN Raised(m, heap)
    ELSE IF m.generator.pos < Len(m.generator.elems)
         THEN LET value == m.generator.elems[m.generator.pos + 1]
              IN  [machine |-> [m EXCEPT !.generator.pos = @ + 1, !.step_count = @ + 1],
                   lists |-> [heap EXCEPT ![m.values_yielded] = Append(@, value)],
                   outcome |-> "value", value |-> value]
         ELSE Raised([m EXCEPT !.exhausted = TRUE], heap)

\* get_state: the dict holds the instance's own args, kwargs and list object
get_state(m) ==
    [func_name |-> factory, args |-> m.args, kwargs |-> m.kwargs,
     step_count |-> m.step_count, values_yielded |-> m.values_yielded,
     exhausted |-> m.exhausted]

\* `for _ in range(k): next(self.generator)`, StopIteration setting exhausted
RECURSIVE replay(_, _)
replay(m, k) ==
    IF k = 0 THEN m
    ELSE IF m.generator.pos < Len(m.generator.elems)
         THEN replay([m EXCEPT !.generator.pos = @ + 1], k - 1)
         ELSE [m EXCEPT !.exhausted = TRUE]

StateKeys == {"args", "kwargs", "step_count", "values_yielded", "exhausted"}

\* variant: a dict with other keys than the five read is refused
set_state_known_keys_only(m, state_dict) ==
    IF DOMAIN state_dict # StateKeys THEN m
    ELSE LET m1 == [m EXCEPT !.args = state_dict["args"],
                             !.kwargs = state_dict["kwargs"],
                             !.step_count = state_dict["step_count"],
                             !.values_yielded = state_dict["values_yielded"],
                             !.exhausted = state_dict["exhausted"]]
         IN  IF ~m1.exhausted /\ m1.step_count > 0
             THEN replay(reset(m1), m1.step_count)
             ELSE m1

set_state(m, state_dict) ==
    LET m1 == [m EXCEPT !.args = state_dict["args"],
                        !.kwargs = state_dict["kwargs"],
                        !.step_count = state_dict["step_count"],
                        !.values_yielded = state_dict["values_yielded"],
                        !.exhausted = state_dict["exhausted"]]
    IN  IF ~m1.exhausted /\ m1.step_count > 0
        THEN replay(reset(m1), m1.step_count)
        ELSE m1

\* the dict of get_state as json.dumps reads it, the list object by its content
state_value(d, heap) ==
    py_dict(<< <<py_str("func_name"), py_str(d.func_name)>>,
               <<py_str("args"), d.args>>,
               <<py_str("kwargs"), d.kwargs>>,
               <<py_str("step_count"), py_int(d.step_count)>>,
               <<py_str("values_yielded"), py_list(heap[d.values_yielded])>>,
               <<py_str("exhausted"), py_bool(d.exhausted)>> >>)

\* variant: json.dumps without default=str
to_json_no_default(m, heap) == json_dumps(state_value(get_state(m), heap), FALSE)

\* to_json: json.dumps(self.get_state(), default=str)
to_json(m, heap) == json_dumps(state_value(get_state(m), heap), TRUE)

\* the dict json.loads built, its values_yielded list being the new list object r
loaded_state(o, r) ==
    [k \in {o.dict[i][1].str : i \in 1..Len(o.dict)} |->
        CASE k = "values_yielded" -> r
          [] k = "step_count" -> lookup(o, py_str(k)).int
          [] k = "exhausted" -> lookup(o, py_str(k)).bool
          [] k = "func_name" -> lookup(o, py_str(k)).str
          [] OTHER -> lookup(o, py_str(k))]

(***************************************************************************)
(* A program using the class: it creates instances, advances them, takes   *)
(* and restores states, in any order.                                      *)
(***************************************************************************)
NoTransform ==
    /\ func = [name |-> "", decorated |-> FALSE, doc |-> FALSE,
               node |-> FunctionDef("", arguments(<<>>, <<>>), <<>>)]
    /\ pc = "idle"
    /\ raised = "none"
    /\ parsed = Module(<<>>)
    /\ tree = Module(<<>>)
    /\ compiled = 0
    /\ new_func = NoFunction
    /\ call_args = <<>>
    /\ orig_run = Idle
    /\ new_run = Idle

WrapperInit ==
    /\ factory \in {"fibonacci", "each"}
    /\ machines = <<>>
    /\ lists = <<>>
    /\ states = <<>>
    /\ taken = <<>>
    /\ texts = <<>>
    /\ encoded = <<>>
    /\ ret = NoCall
    /\ NoTransform
    /\ NoGenerators
    /\ NoZip

Gave(op, m, arg, outcome, value) ==
    [calls |-> ret.calls + 1, op |-> op, m |-> m, arg |-> arg,
     outcome |-> outcome, value |-> value]

\* what the instance holds, the list object by its content
Held(m, heap) ==
    [args |-> m.args, kwargs |-> m.kwargs, step_count |-> m.step_count,
     values_yielded |-> heap[m.values_yielded], exhausted |-> m.exhausted]

\* what __next__ of the instance would give back now
Upcoming(m) ==
    IF ~m.exhausted /\ m.generator.pos < Len(m.generator.elems)
    THEN m.generator.elems[m.generator.pos + 1]
    ELSE Nothing

\* machine = PracticalStateMachine(*args, **kwargs)
Construct ==
    /\ ret.calls < MaxCalls
    /\ Len(machines) < MaxMachines
    /\ \E c \in Constructions(factory) :
          /\ lists' = Append(lists, <<>>)
          /\ machines' = Append(machines, init(c, Len(lists) + 1))
          /\ ret' = Gave("init", Len(machines) + 1, 0, "value", Nothing)
    /\ UNCHANGED <<factory, states, taken, texts, encoded>>
    /\ UNCHANGED vars
    /\ UNCHANGED <<gvars, zvars>>

\* next(machine)
Advance ==
    /\ ret.calls < MaxCalls
    /\ \E i \in 1..Len(machines) :
          LET r == dunder_next(machines[i], lists)
          IN  /\ machines' = [machines EXCEPT ![i] = r.machine]
              /\ lists' = r.lists
              /\ ret' = Gave("next", i, 0, r.outcome, r.value)
    /\ UNCHANGED <<factory, states, taken, texts, encoded>>
    /\ UNCHANGED vars
    /\ UNCHANGED <<gvars, zvars>>

\* state = machine.get_state()
GetState ==
    /\ ret.calls < MaxCalls
    /\ \E i \in 1..Len(machines) :
          /\ states' = <<get_state(machines[i])>>
          /\ taken' = <<Held(machines[i], lists)>>
          /\ ret' = Gave("get_state", i, 1, "value", Nothing)
    /\ UNCHANGED <<factory, machines, lists, texts, encoded>>
    /\ UNCHANGED vars
    /\ UNCHANGED <<gvars, zvars>>

\* machine.set_state(state)
SetState ==
    /\ ret.calls < MaxCalls
    /\ \E i \in 1..Len(machines), k \in 1..Len(states) :
          /\ machines' = [machines EXCEPT ![i] = set_state(machines[i], states[k])]
          /\ ret' = Gave("set_state", i, k, "value", Nothing)
    /\ UNCHANGED <<factory, lists, states, taken, texts, encoded>>
    /\ UNCHANGED vars
    /\ UNCHANGED <<gvars, zvars>>

\* text = machine.to_json()
ToJson ==
    /\ ret.calls < MaxCalls
    /\ \E i \in 1..Len(machines) :
          LET jv == to_json(machines[i], lists)
          IN  IF json_failed(jv)
              THEN /\ ret' = Gave("to_json", i, 0, "TypeError", Nothing)
                   /\ UNCHANGED <<texts, encoded>>
              ELSE /\ texts' = <<jv>>
                   /\ encoded' = <<[held |-> Held(machines[i], lists),
                                    upcoming |-> Upcoming(machines[i])]>>
                   /\ ret' = Gave("to_json", i, 1, "value", Nothing)
    /\ UNCHANGED <<factory, machines, lists, states, taken>>
    /\ UNCHANGED vars
    /\ UNCHANGED <<gvars, zvars>>

\* members another writer of the record may have added
ExtraMembers == {<<>>, << <<"version", j_number(2)>> >>}

\* machine.from_json(text): set_state(json.loads(text))
FromJson ==
    /\ ret.calls < MaxCalls
    /\ \E i \in 1..Len(machines), k \in 1..Len(texts), extra \in ExtraMembers :
          LET o == json_loads(j_object(texts[k].object \o extra))
              r == Len(lists) + 1
          IN  /\ lists' = Append(lists, lookup(o, py_str("values_yielded")).list)
              /\ machines' = [machines EXCEPT ![i] = set_state(machines[i], loaded_state(o, r))]
              /\ ret' = Gave("from_json", i, <<k, extra>>, "value", Nothing)
    /\ UNCHANGED <<factory, states, taken, texts, encoded>>
    /\ UNCHANGED vars
    /\ UNCHANGED <<gvars, zvars>>

\* clone = machine.clone_at_state(); the new instance is created with a list
\* object of its own, which set_state replaces by the list of the state
CloneAtState ==
    /\ ret.calls < MaxCalls
    /\ Len(machines) < MaxMachines
    /\ \E i \in 1..Len(machines) :
          LET new_instance == init([args |-> machines[i].args,
                                    kwargs |-> machines[i].kwargs], Len(lists) + 1)
          IN  /\ lists' = Append(lists, <<>>)
              /\ machines' = Append(machines, set_state(new_instance, get_state(machines[i])))
              /\ ret' = Gave("clone_at_state", Len(machines) + 1, i, "value", Nothing)
    /\ UNCHANGED <<factory, states, taken, texts, encoded>>
    /\ UNCHANGED vars
    /\ UNCHANGED <<gvars, zvars>>

WrapperNext ==
    \/ Construct
    \/ Advance
    \/ GetState
    \/ SetState
    \/ ToJson
    \/ FromJson
    \/ CloneAtState

WrapperSpec == WrapperInit /\ [][WrapperNext]_allvars

(***************************************************************************)
(* Claims about PracticalStateMachine                                      *)
(***************************************************************************)
\* the step is a call of op (the call just made is ret')
Called(op) == ret'.calls # ret.calls /\ ret'.op = op

Finished(m) == m.generator.pos >= Len(m.generator.elems)

\* C11: every __next__ that returns a value increases step_count by exactly
\* one and appends exactly that value at the end of values_yielded; args,
\* kwargs and the earlier entries of the history are unchanged.
C11_AdvanceRecords ==
    [][(Called("next") /\ ret'.outcome = "value") =>
          LET old == machines[ret'.m]
              new == machines'[ret'.m]
          IN  /\ new.step_count = old.step_count + 1
              /\ new.values_yielded = old.values_yielded
              /\ lists'[new.values_yielded] = Append(lists[old.values_yielded], ret'.value)
              /\ new.args = old.args
              /\ new.kwargs = old.kwargs]_<<vars, wvars>>

\* an advance returned a value onto a history that had entries already
C11_Witness ==
    /\ ret.op = "next"
    /\ ret.outcome = "value"
    /\ machines[ret.m].step_count >= 2
    /\ Len(lists[machines[ret.m].values_yielded]) >= 2

\* C12: once the sequence of an instance is finished, or the instance is
\* marked exhausted, __next__ fails with StopIteration and leaves step_count
\* and values_yielded as they were; the instance is then marked exhausted and
\* stays so under every call but a restore of it, so no later __next__
\* returns a value.
C12_ExhaustedStays ==
    [][/\ Called("next") =>
            LET old == machines[ret'.m]
                new == machines'[ret'.m]
            IN  /\ (old.exhausted \/ Finished(old)) => ret'.outcome = "StopIteration"
                /\ ret'.outcome = "StopIteration" =>
                      /\ new.exhausted
                      /\ new.step_count = old.step_count
                      /\ lists' = lists
       /\ \A i \in 1..Len(machines) :
             (machines[i].exhausted /\ ~(ret'.op \in {"set_state", "from_json"} /\ ret'.m = i))
                => machines'[i].exhausted]_<<vars, wvars>>

\* an advance failed on an instance marked exhausted whose generator has
\* elements left
C12_Witness ==
    /\ ret.op = "next"
    /\ ret.outcome = "StopIteration"
    /\ ~Finished(machines[ret.m])

\* C13: the dict get_state returned keeps the step_count, values_yielded and
\* exhausted the instance had when it was returned, whatever is called later.
C13_SnapshotIsCopy ==
    \A k \in 1..Len(states) :
        /\ states[k].step_count = taken[k].step_count
        /\ lists[states[k].values_yielded] = taken[k].values_yielded
        /\ states[k].exhausted = taken[k].exhausted

\* the element at position i (from 0) of a sequence, if it has one
ElementAt(elems, i) == IF i < Len(elems) THEN elems[i + 1] ELSE Nothing

\* C14: after set_state of a state that is not exhausted, the next __next__
\* returns the element at position step_count of a fresh sequence made from
\* the state's args and kwargs, for every step_count >= 0 and whatever the
\* position of the instance before.
C14_RestorePosition ==
    [][(Called("set_state") /\ ~states[ret'.arg].exhausted) =>
          LET s == states[ret'.arg]
          IN  Upcoming(machines'[ret'.m])
                 = ElementAt(Elements(factory, s.args, s.kwargs), s.step_count)]_<<vars, wvars>>

\* C15: after set_state of a state that is not exhausted, the generator of
\* the instance is the one made from the args and kwargs of the state, also
\* when the instance was created with other arguments, so that every later
\* __next__ returns elements of func(*state.args, **state.kwargs).
C15_BoundToStateArgs ==
    [][(Called("set_state") /\ ~states[ret'.arg].exhausted) =>
          LET s == states[ret'.arg]
          IN  machines'[ret'.m].generator.elems
                 = Elements(factory, s.args, s.kwargs)]_<<vars, wvars>>

\* structural equality: the same value, a list and a tuple being both an
\* ordered sequence
RECURSIVE same(_, _)
same(x, y) ==
    IF type(x) \in {"list", "tuple"}
    THEN /\ type(y) \in {"list", "tuple"}
         /\ Len(items(x)) = Len(items(y))
         /\ \A i \in 1..Len(items(x)) : same(items(x)[i], items(y)[i])
    ELSE IF type(x) = "dict"
    THEN /\ type(y) = "dict"
         /\ Len(x.dict) = Len(y.dict)
         /\ \A i \in 1..Len(x.dict) :
               /\ x.dict[i][1] = y.dict[i][1]
               /\ same(x.dict[i][2], y.dict[i][2])
    ELSE x = y

\* C16: after to_json on an instance and from_json of that text into an
\* instance, the next __next__ of the restored instance returns the value
\* the next __next__ of the encoded instance would have returned.
C16_JsonRoundTripAdvance ==
    [][Called("from_json") =>
          same(Upcoming(machines'[ret'.m]), encoded[1].upcoming)]_<<vars, wvars>>

\* C17: the first __next__ of the instance clone_at_state returns gives the
\* value the next __next__ of the original gives, and a __next__ on one
\* instance does not change what the next __next__ of another returns.
C17_CloneIndependent ==
    [][/\ Called("clone_at_state") =>
             Upcoming(machines'[ret'.m]) = Upcoming(machines[ret'.arg])
       /\ Called("next") =>
             \A j \in 1..Len(machines) :
                j # ret'.m => Upcoming(machines'[j]) = Upcoming(machines[j])]_<<vars, wvars>>

\* values json encodes without default: numbers, strings, booleans, ordered
\* sequences and mappings of them
RECURSIVE Supported(_)
Supported(x) ==
    CASE type(x) \in {"list", "tuple"} ->
            \A i \in 1..Len(items(x)) : Supported(items(x)[i])
      [] type(x) = "dict" ->
            \A i \in 1..Len(x.dict) : Supported(x.dict[i][1]) /\ Supported(x.dict[i][2])
      [] type(x) = "set" -> FALSE
      [] OTHER -> TRUE

SupportedState(h) ==
    /\ Supported(h.args)
    /\ Supported(h.kwargs)
    /\ Supported(py_list(h.values_yielded))

\* the dict json.loads makes of a text
Decoded(text) == json_loads(text)

\* C18: for a state of supported values, decoding the text to_json returned
\* gives args, kwargs, step_count, values_yielded and exhausted structurally
\* equal to those of the instance when it was encoded.
C18_RoundTrip ==
    \A k \in 1..Len(texts) :
        SupportedState(encoded[k].held) =>
            LET o == Decoded(texts[k])
                h == encoded[k].held
            IN  /\ same(lookup(o, py_str("args")), h.args)
                /\ same(lookup(o, py_str("kwargs")), h.kwargs)
                /\ lookup(o, py_str("step_count")) = py_int(h.step_count)
                /\ same(lookup(o, py_str("values_yielded")), py_list(h.values_yielded))
                /\ lookup(o, py_str("exhausted")) = py_bool(h.exhausted)

\* the call just made was to_json on instance i, which holds a value json
\* does not encode
EncodesUnsupported(i) ==
    /\ Called("to_json")
    /\ ret'.m = i
    /\ ~SupportedState(Held(machines[i], lists))

RECURSIVE Stringified(_)
Stringified(x) ==
    CASE type(x) = "list" -> py_list([i \in 1..Len(x.list) |-> Stringified(x.list[i])])
      [] type(x) = "tuple" -> py_tuple([i \in 1..Len(x.tuple) |-> Stringified(x.tuple[i])])
      [] type(x) = "dict" ->
            py_dict([i \in 1..Len(x.dict) |-> <<x.dict[i][1], Stringified(x.dict[i][2])>>])
      [] type(x) = "set" -> py_str(x.set)
      [] OTHER -> x

IsStateMember(pair) == pair[1].str \in StateKeys
Known(o) == py_dict(SelectSeq(o.dict, IsStateMember))

\* C20: from_json of a text that carries members beyond args, kwargs,
\* step_count, values_yielded and exhausted (func_name, and any other a
\* writer added) succeeds and leaves the instance as restoring the record
\* without those members leaves it.
C20_ExtraFieldsIgnored ==
    [][\A i \in 1..Len(machines) :
          (Called("from_json") /\ ret'.m = i) =>
              LET o == Decoded(texts[1])
                  r == Len(lists) + 1
              IN  /\ ret'.outcome = "value"
                  /\ lists' = Append(lists, lookup(o, py_str("values_yielded")).list)
                  /\ machines'[i] = set_state(machines[i], loaded_state(Known(o), r))]_<<vars, wvars>>

\* a text with a member "version" added was restored, at a position past the
\* start
C20_Witness ==
    /\ ret.op = "from_json"
    /\ ret.arg[2] # <<>>
    /\ machines[ret.m].step_count >= 1
    /\ machines[ret.m].generator.pos = machines[ret.m].step_count

(***************************************************************************)
(* Further claims about TailRecursionTransformer                           *)
(***************************************************************************)
\* the conditions of the two methods, read off the body as parsed: the second
\* and third statements are the guard `if` (one return, no else) and a tail
\* call of as many arguments as there are parameters; or the second statement
\* is a match with exactly one tail-call arm, of as many arguments
SameCount(call) == Len(call.args) = Len(ParsedDef.args.args)
IfShape ==
    LET b == ParsedDef.body
    IN  /\ Len(b) = 3
        /\ b[2].kind = "If" /\ b[3].kind = "Return"
        /\ Len(b[2].body) = 1 /\ b[2].body[1].kind = "Return"
        /\ b[2].orelse = <<>>
        /\ ReturnsTailCall(b[3])
        /\ SameCount(b[3].value)
MatchShape ==
    LET b == ParsedDef.body
    IN  /\ Len(b) = 2
        /\ b[2].kind = "Match"
        /\ Cardinality(TailCallArms(b[2])) = 1
        /\ \A k \in TailCallArms(b[2]) : SameCount(b[2].cases[k].body[1].value)
\* the statement `p1, ..., pk = (a1, ..., ak)` for a call
Rebind(call) ==
    Assign(Tuple([i \in 1..Len(ParsedDef.args.args) |-> Name(ParsedDef.args.args[i])]),
           Tuple(call.args))

\* C21 as claimed: on every path the tree the transformer was given is left
\* as it was parsed.
C21_TreeUntouched == Visited => tree = parsed

\* C21: the tree is left as parsed exactly when neither shape is found; when
\* one is found the function definition node of the tree given has its body
\* replaced by the loop, which holds the statements of the input (the guard
\* `if`, the match statement), and in the dispatch shape the body of the
\* tail-call arm of the input match statement is replaced by the rebind.
C21_EditedInPlace ==
    Visited =>
        /\ TreeDef.name = ParsedDef.name /\ TreeDef.args = ParsedDef.args
        /\ (~IfShape /\ ~MatchShape) => tree = parsed
        /\ IfShape =>
              TreeDef.body = <<while_True(<<ParsedDef.body[2],
                                            Rebind(ParsedDef.body[3].value)>>)>>
        /\ MatchShape =>
              LET m == ParsedDef.body[2]
                  k == CHOOSE k \in TailCallArms(m) : TRUE
              IN  TreeDef.body =
                     <<while_True(<<[m EXCEPT !.cases[k].body =
                                        <<Rebind(m.cases[k].body[1].value)>>]>>)>>
C21_Witness ==
    /\ pc = "returned"
    /\ MatchShape
    /\ Len(ParsedDef.body[2].cases) >= 2
    /\ tree # parsed

\* C22: tail_recursive applied again, to the function it returned for a body
\* of neither shape, does not fail, and returns a function with that same
\* body.
C22_AgainSameBody ==
    (~has_source(func) /\ ~is_loop(func.node.body)) =>
        /\ pc # "raised"
        /\ pc = "returned" => new_func.body = func.node.body

\* C23: a body that is exactly the guard `if` followed by the tail-call
\* return, with no docstring before, is recognized as the guarded shape, and
\* a body that is exactly one match statement with one tail-call arm, with no
\* docstring before, is recognized as the dispatch shape.
C23_NoDocstringNeeded ==
    Visited =>
        LET b == ParsedDef.body
        IN  /\ ( /\ Len(b) = 2
                 /\ b[1].kind = "If"
                 /\ Len(b[1].body) = 1 /\ b[1].body[1].kind = "Return"
                 /\ b[1].orelse = <<>>
                 /\ ReturnsTailCall(b[2]) /\ SameCount(b[2].value) ) => RecognizedIf
            /\ ( /\ Len(b) = 1
                 /\ b[1].kind = "Match"
                 /\ Cardinality(TailCallArms(b[1])) = 1
                 /\ \A k \in TailCallArms(b[1]) : SameCount(b[1].cases[k].body[1].value) )
                  => RecognizedMatch

\* C24: a tail call that passes a keyword argument, and a function that has
\* keyword-only parameters, is left untransformed.
C24_KeywordsUnrecognized ==
    ( /\ Visited
      /\ \/ \E c \in TailCalls : c.keywords # <<>>
         \/ ParsedDef.args.kwonlyargs # <<>> ) => Unrecognized
\* C24: no argument value of the tail call is discarded: when the original
\* function and the returned one have both returned, on the same arguments,
\* they have returned the same value
C24_NothingDiscarded ==
    ( /\ Recognized
      /\ \E c \in TailCalls : c.keywords # <<>>
      /\ orig_run.status = "returned" /\ new_run.status = "returned" )
    => new_run.result = orig_run.result

\* C27: when the transformer does not transform (statement count or kinds
\* other than it looks for, an else clause, no or several tail-call arms, a
\* tail call of another number of arguments), the function definition comes
\* back with its body exactly as parsed; in the dispatch shape the arm with
\* the tail call of another number of arguments still holds its return.
C27_DeclineLeavesBody ==
    (Visited /\ ~IfShape /\ ~MatchShape) =>
        /\ TreeDef.body = ParsedDef.body
        /\ tree = parsed
\* a docstring and a match whose single tail-call arm passes one argument
C27_Witness ==
    /\ pc = "returned"
    /\ Len(ParsedDef.body) = 2 /\ ParsedDef.body[2].kind = "Match"
    /\ \E k \in TailCallArms(ParsedDef.body[2]) :
          /\ Cardinality(TailCallArms(ParsedDef.body[2])) = 1
          /\ ~SameCount(ParsedDef.body[2].cases[k].body[1].value)
          /\ TreeDef.body[2].cases[k].body = ParsedDef.body[2].cases[k].body
    /\ tree = parsed

(***************************************************************************)
(* Further claims about PracticalStateMachine                              *)
(***************************************************************************)
\* C25: a restore adopts the recorded bookkeeping: whatever state an instance
\* gives (get_state), an instance that restores it (set_state) has the
\* step_count, the values_yielded list and the exhausted flag of that state.
C25_RestoreAdopts ==
    \A i, j \in 1..Len(machines) :
        LET s == get_state(machines[j])
            m == set_state(machines[i], s)
        IN  /\ m.step_count = s["step_count"]
            /\ m.values_yielded = s["values_yielded"]
            /\ m.exhausted = s["exhausted"]

\* C26: for every instance, step_count is the length of its values_yielded.
C26_CountIsLength ==
    \A i \in 1..Len(machines) :
        machines[i].step_count = Len(lists[machines[i].values_yielded])

(***************************************************************************)
(* rewrite_gen.py, code_transform_generator: the class it builds for a     *)
(* generator function keeps one code segment per statement of the body and *)
(* the local variables as attributes; __next__ executes segments from the  *)
(* state index on, until one gives a value.                                *)
(***************************************************************************)
MaxStart == 3        \* largest argument a generator is called with

\* statements of a generator body: `yield value`, `target op= value`
Yield(value) == [kind |-> "Expr", value |-> [kind |-> "Yield", value |-> value]]
AugAssign(target, op, value) ==
    [kind |-> "AugAssign", target |-> target, op |-> op, value |-> value]

\* def countdown(n):
\*     while n > 0:
\*         yield n
\*         n -= 1
countdown ==
    FunctionDef("countdown", arguments(<<"n">>, <<>>),
        <<While(Compare(Name("n"), "Gt", Constant(0)),
                <<Yield(Name("n")), AugAssign(Name("n"), "Sub", Constant(1))>>)>>)
\* the same values without a loop, for two steps
\* def steps(a):
\*     yield a
\*     b = a - 1
\*     yield b
\*     yield a + b
steps ==
    FunctionDef("steps", arguments(<<"a">>, <<>>),
        <<Yield(Name("a")),
          Assign(Name("b"), BinOp(Name("a"), "Sub", Constant(1))),
          Yield(Name("b")),
          Yield(BinOp(Name("a"), "Add", Name("b")))>>)
Generators == {countdown, steps}

\* evaluation of an expression over int values; a comparison gives a boolean
RECURSIVE gen_eval(_, _)
gen_eval(e, env) ==
    CASE e.kind = "Name" -> env[e.id]
      [] e.kind = "Constant" -> py_int(e.value)
      [] e.kind = "BinOp" ->
            LET l == gen_eval(e.left, env).int
                r == gen_eval(e.right, env).int
            IN  (CASE e.op = "Add" -> py_int(l + r)
                   [] e.op = "Sub" -> py_int(l - r)
                   [] e.op = "Mult" -> py_int(l * r))
      [] e.kind = "Compare" ->
            LET l == gen_eval(e.left, env).int
                r == gen_eval(e.right, env).int
            IN  (CASE e.op = "Gt" -> py_bool(l > r)
                   [] e.op = "LtE" -> py_bool(l <= r))

\* the names an expression reads
RECURSIVE names(_)
names(e) ==
    CASE e.kind = "Name" -> {e.id}
      [] e.kind \in {"BinOp", "Compare"} -> names(e.left) \cup names(e.right)
      [] OTHER -> {}

\* binding of a name, new or not
store(env, x, v) == [y \in DOMAIN env \cup {x} |-> IF y = x THEN v ELSE env[y]]

\* running statements as Python runs them, in a generator or under exec: the
\* variables afterwards and the values yielded on the way, in order
RECURSIVE gen_run(_, _)
gen_run(stmts, env) ==
    IF stmts = <<>> THEN [env |-> env, out |-> <<>>]
    ELSE LET s == Head(stmts)
             rest == Tail(stmts)
         IN  CASE s.kind = "Expr" ->
                    LET r == gen_run(rest, env)
                    IN  [env |-> r.env, out |-> <<gen_eval(s.value.value, env)>> \o r.out]
               [] s.kind = "Assign" ->
                    gen_run(rest, store(env, s.targets[1].id, gen_eval(s.value, env)))
               [] s.kind = "AugAssign" ->
                    gen_run(rest, store(env, s.target.id,
                                        gen_eval(BinOp(s.target, s.op, s.value), env)))
               [] s.kind = "While" ->
                    IF gen_eval(s.test, env).bool
                    THEN gen_run(s.body \o stmts, env)
                    ELSE gen_run(rest, env)

\* the original generator function called with args: the values it yields
original(args) ==
    gen_run(gen.body,
            [x \in {gen.args.args[i] : i \in 1..Len(gen.args.args)} |->
                items(args)[CHOOSE i \in 1..Len(gen.args.args) : gen.args.args[i] = x]]).out

\* CodeAnalyzer: the names assigned in the body, with the parameters
RECURSIVE assigned(_)
assigned(stmts) ==
    IF stmts = <<>> THEN {}
    ELSE LET s == Head(stmts)
         IN  (CASE s.kind = "Assign" ->
                     IF s.targets[1].kind = "Name" THEN {s.targets[1].id} ELSE {}
                [] s.kind = "AugAssign" -> {s.target.id}
                [] s.kind = "While" -> assigned(s.body)
                [] OTHER -> {})
             \cup assigned(Tail(stmts))
param_names == gen.args.args
local_vars == {param_names[i] : i \in 1..Len(param_names)} \cup assigned(gen.body)

\* any(isinstance(n, ast.Yield) for n in ast.walk(stmt))
RECURSIVE has_yield(_)
has_yield(stmt) ==
    CASE stmt.kind = "Expr" -> stmt.value.kind = "Yield"
      [] stmt.kind = "While" -> \E i \in 1..Len(stmt.body) : has_yield(stmt.body[i])
      [] OTHER -> FALSE

\* ast.unparse(stmt), as far as the class reads the text: which of the words
\* yield, while, for, if occur in it (the names of the model's generators
\* contain none), whether it starts with `yield `, its number of lines
RECURSIVE words(_)
words(stmt) ==
    CASE stmt.kind = "Expr" -> IF stmt.value.kind = "Yield" THEN {"yield"} ELSE {}
      [] stmt.kind = "While" ->
            {"while"} \cup UNION {words(stmt.body[i]) : i \in 1..Len(stmt.body)}
      [] stmt.kind = "If" ->
            {"if"} \cup UNION {words(stmt.body[i]) : i \in 1..Len(stmt.body)}
      [] OTHER -> {}
RECURSIVE line_count(_)
line_count(stmt) ==
    IF stmt.kind \in {"While", "If"}
    THEN LET RECURSIVE sum(_)
             sum(k) == IF k = 0 THEN 0 ELSE line_count(stmt.body[k]) + sum(k - 1)
         IN  1 + sum(Len(stmt.body))
    ELSE 1
unparse(stmt) ==
    [stmt |-> stmt, words |-> words(stmt),
     yield_first |-> (stmt.kind = "Expr" /\ stmt.value.kind = "Yield"),
     lines |-> line_count(stmt)]

\* segments: (i, code, has a yield), one per statement of the body
segments ==
    [i \in 1..Len(gen.body) |->
        [index |-> i - 1, code |-> unparse(gen.body[i]), has_yield |-> has_yield(gen.body[i])]]

\* __init__: every local variable None, then the parameters bound from args by
\* position and from kwargs by name
gsm_init(args, kwargs) ==
    [args |-> args, kwargs |-> kwargs, state |-> 0, exhausted |-> FALSE,
     current_value |-> Nothing, yield_count |-> 0,
     locals |-> [x \in local_vars |->
                   IF \E i \in 1..Len(param_names) :
                         param_names[i] = x /\ i <= Len(items(args))
                   THEN items(args)[CHOOSE i \in 1..Len(param_names) : param_names[i] = x]
                   ELSE IF \E i \in 1..Len(kwargs.dict) : kwargs.dict[i][1] = py_str(x)
                   THEN lookup(kwargs, py_str(x))
                   ELSE Nothing]]

\* _execute_statement: exec(code) over a copy of the local variables, which
\* are then stored back
execute_statement(m, code) ==
    LET local_context == gen_run(<<code.stmt>>, m.locals).env
    IN  [m EXCEPT !.locals = [x \in local_vars |-> local_context[x]]]

\* _fallback_execution: the text of temp_gen puts four more spaces before the
\* first variable line than before the first line of code, and none before the
\* further lines of code: it compiles only without variables and for one line
\* of code; every exception gives None
fallback_execution(m, code) ==
    IF local_vars # {} \/ code.lines > 1 THEN Nothing
    ELSE LET out == gen_run(<<code.stmt>>, <<>>).out
         IN  IF out = <<>> THEN Nothing ELSE out[1]

\* _execute_with_yield: the value of a plain `yield expr` (None when eval
\* raises), the fallback for a text with while, for or if in it
execute_with_yield(m, code) ==
    IF "yield" \in code.words /\ code.words \cap {"while", "for", "if"} = {}
    THEN IF code.yield_first
         THEN IF \E x \in names(code.stmt.value.value) : m.locals[x] = Nothing
              THEN Nothing
              ELSE gen_eval(code.stmt.value.value, m.locals)
         ELSE Nothing
    ELSE fallback_execution(m, code)

Stopped(m) == [machine |-> m, outcome |-> "StopIteration", value |-> Nothing]

\* __next__
RECURSIVE gsm_next(_)
gsm_next(m) ==
    IF m.exhausted THEN Stopped(m)
    ELSE IF m.state < Len(segments)
    THEN LET seg == segments[m.state + 1]
         IN  IF seg.has_yield
             THEN LET r == execute_with_yield(m, seg.code)
                      m1 == [m EXCEPT !.state = @ + 1, !.yield_count = @ + 1]
                  IN  IF r # Nothing
                      THEN [machine |-> [m1 EXCEPT !.current_value = r],
                            outcome |-> "value", value |-> r]
                      ELSE gsm_next(m1)
             ELSE gsm_next([execute_statement(m, seg.code) EXCEPT !.state = @ + 1])
    ELSE Stopped([m EXCEPT !.exhausted = TRUE])

\* get_state: the dict, its keys var_<name> as the member vars
gsm_get_state(m) ==
    [args |-> m.args, kwargs |-> m.kwargs, state |-> m.state,
     exhausted |-> m.exhausted, current_value |-> m.current_value,
     yield_count |-> m.yield_count, vars |-> m.locals]

\* variant: the local variables are not restored
gsm_set_state_no_locals(m, state_dict) ==
    [m EXCEPT !.args = state_dict.args, !.kwargs = state_dict.kwargs,
              !.state = state_dict.state, !.exhausted = state_dict.exhausted,
              !.current_value = state_dict.current_value,
              !.yield_count = state_dict.yield_count]

\* set_state: a local variable is restored when the dict has its key
gsm_set_state(m, state_dict) ==
    [m EXCEPT !.args = state_dict.args, !.kwargs = state_dict.kwargs,
              !.state = state_dict.state, !.exhausted = state_dict.exhausted,
              !.current_value = state_dict.current_value,
              !.yield_count = state_dict.yield_count,
              !.locals = [x \in local_vars |->
                             IF x \in DOMAIN state_dict.vars THEN state_dict.vars[x]
                             ELSE m.locals[x]]]

\* the keys of the local variables in the dict
var_key == [n |-> "var_n", a |-> "var_a", b |-> "var_b"]
var_of(key) == CHOOSE x \in DOMAIN var_key : var_key[x] = key

\* the dict of get_state as json.dumps reads it
gsm_state_value(d) ==
    LET order == CHOOSE q \in [1..Cardinality(DOMAIN d.vars) -> DOMAIN d.vars] :
                    \A i, j \in DOMAIN q : i # j => q[i] # q[j]
    IN  py_dict(<< <<py_str("args"), d.args>>,
                   <<py_str("kwargs"), d.kwargs>>,
                   <<py_str("state"), py_int(d.state)>>,
                   <<py_str("exhausted"), py_bool(d.exhausted)>>,
                   <<py_str("current_value"), d.current_value>>,
                   <<py_str("yield_count"), py_int(d.yield_count)>> >>
                \o [i \in DOMAIN order |-> <<py_str(var_key[order[i]]), d.vars[order[i]]>>])

\* to_json: json.dumps(self.get_state(), default=str)
gsm_to_json(m) == json_dumps(gsm_state_value(gsm_get_state(m)), TRUE)

\* the dict json.loads built
gsm_loaded_state(o) ==
    [args |-> lookup(o, py_str("args")), kwargs |-> lookup(o, py_str("kwargs")),
     state |-> lookup(o, py_str("state")).int,
     exhausted |-> lookup(o, py_str("exhausted")).bool,
     current_value |-> lookup(o, py_str("current_value")),
     yield_count |-> lookup(o, py_str("yield_count")).int,
     vars |-> [x \in {var_of(o.dict[i][1].str) :
                        i \in {k \in 1..Len(o.dict) :
                                 o.dict[k][1].str \in {var_key[y] : y \in DOMAIN var_key}}} |->
                 lookup(o, py_str(var_key[x]))]]

\* from_json: set_state(json.loads(json_str))
gsm_from_json(m, text) == gsm_set_state(m, gsm_loaded_state(json_loads(text)))

(***************************************************************************)
(* A program using the class: it creates instances, advances them, takes   *)
(* states and texts and restores them, in any order.                       *)
(***************************************************************************)
GenInit ==
    /\ gen \in Generators
    /\ gmachines = <<>>
    /\ gtrace = <<>>
    /\ gsaved = <<>>
    /\ gret = NoCall
    /\ NoTransform
    /\ NoWrappers
    /\ NoZip

GGave(op, m, outcome, value) ==
    [calls |-> gret.calls + 1, op |-> op, m |-> m, arg |-> 0,
     outcome |-> outcome, value |-> value]

\* machine = countdown(n)
GenConstruct ==
    /\ gret.calls < MaxCalls
    /\ Len(gmachines) < MaxMachines
    /\ \E n \in 0..MaxStart :
          LET args == py_tuple(<<py_int(n)>>)
          IN  /\ gmachines' = Append(gmachines, gsm_init(args, NoKwargs))
              /\ gtrace' = Append(gtrace, [args |-> args, out |-> <<>>,
                                           stopped |-> FALSE, restored |-> FALSE])
    /\ gret' = GGave("init", Len(gmachines) + 1, "value", Nothing)
    /\ UNCHANGED <<gen, gsaved>>
    /\ UNCHANGED <<vars, wvars, zvars>>

\* next(machine)
GenAdvance ==
    /\ gret.calls < MaxCalls
    /\ \E i \in 1..Len(gmachines) :
          LET r == gsm_next(gmachines[i])
          IN  /\ gmachines' = [gmachines EXCEPT ![i] = r.machine]
              /\ gtrace' = [gtrace EXCEPT
                              ![i].out = IF r.outcome = "value" THEN Append(@, r.value) ELSE @,
                              ![i].stopped = (r.outcome = "StopIteration")]
              /\ gret' = GGave("next", i, r.outcome, r.value)
    /\ UNCHANGED <<gen, gsaved>>
    /\ UNCHANGED <<vars, wvars, zvars>>

\* state = machine.get_state()
GenGetState ==
    /\ gret.calls < MaxCalls
    /\ \E i \in 1..Len(gmachines) :
          /\ gsaved' = <<[dict |-> gsm_get_state(gmachines[i]), from |-> gmachines[i]]>>
          /\ gret' = GGave("get_state", i, "value", Nothing)
    /\ UNCHANGED <<gen, gmachines, gtrace>>
    /\ UNCHANGED <<vars, wvars, zvars>>

\* machine.set_state(state)
GenSetState ==
    /\ gret.calls < MaxCalls
    /\ gsaved # <<>> /\ "dict" \in DOMAIN gsaved[1]
    /\ \E i \in 1..Len(gmachines) :
          /\ gmachines' = [gmachines EXCEPT ![i] = gsm_set_state(@, gsaved[1].dict)]
          /\ gtrace' = [gtrace EXCEPT ![i].restored = TRUE]
          /\ gret' = GGave("set_state", i, "value", Nothing)
    /\ UNCHANGED <<gen, gsaved>>
    /\ UNCHANGED <<vars, wvars, zvars>>

\* text = machine.to_json()
GenToJson ==
    /\ gret.calls < MaxCalls
    /\ \E i \in 1..Len(gmachines) :
          /\ gsaved' = <<[text |-> gsm_to_json(gmachines[i]), from |-> gmachines[i]]>>
          /\ gret' = GGave("to_json", i, "value", Nothing)
    /\ UNCHANGED <<gen, gmachines, gtrace>>
    /\ UNCHANGED <<vars, wvars, zvars>>

\* machine.from_json(text)
GenFromJson ==
    /\ gret.calls < MaxCalls
    /\ gsaved # <<>> /\ "text" \in DOMAIN gsaved[1]
    /\ \E i \in 1..Len(gmachines) :
          /\ gmachines' = [gmachines EXCEPT ![i] = gsm_from_json(@, gsaved[1].text)]
          /\ gtrace' = [gtrace EXCEPT ![i].restored = TRUE]
          /\ gret' = GGave("from_json", i, "value", Nothing)
    /\ UNCHANGED <<gen, gsaved>>
    /\ UNCHANGED <<vars, wvars, zvars>>

GenNext ==
    \/ GenConstruct
    \/ GenAdvance
    \/ GenGetState
    \/ GenSetState
    \/ GenToJson
    \/ GenFromJson

GenSpec == GenInit /\ [][GenNext]_allvars

(***************************************************************************)
(* Claims about GeneratorStateMachine                                      *)
(***************************************************************************)
\* C28: an instance that was not restored gives, over its __next__ calls, the
\* values the original generator function yields for the same arguments, in
\* order, and raises StopIteration only once all of them were given.
C28_SameSequence ==
    \A i \in 1..Len(gmachines) :
        ~gtrace[i].restored =>
            LET ys == original(gtrace[i].args)
                out == gtrace[i].out
            IN  /\ Len(out) <= Len(ys)
                /\ out = SubSeq(ys, 1, Len(out))
                /\ gtrace[i].stopped => Len(out) = Len(ys)

\* the values the instance gives from now on, up to StopIteration
RECURSIVE Remaining(_)
Remaining(m) ==
    LET r == gsm_next(m)
    IN  IF r.outcome = "value" THEN <<r.value>> \o Remaining(r.machine) ELSE <<>>

GCalled(op) == gret'.calls # gret.calls /\ gret'.op = op

MaxDim == 2          \* largest dimension of a shape, longest list

Value(v) == [outcome |-> "value", value |-> v]
Raises(e) == [outcome |-> e, value |-> Nothing]

\* list(zip(l1, l2)): pairs up to the end of the shorter one; TypeError for an
\* argument that is not iterable
list_zip(l1, l2) ==
    IF type(l1) # "list" \/ type(l2) # "list" THEN Raises("TypeError")
    ELSE LET n == IF Len(l1.list) < Len(l2.list) THEN Len(l1.list) ELSE Len(l2.list)
         IN  Value(py_list([i \in 1..n |-> py_tuple(<<l1.list[i], l2.list[i]>>)]))

\* zip_list_1.py validate_shape: every list of every level is measured
RECURSIVE validate_shape_1(_, _)
validate_shape_1(lst, expected_shape) ==
    IF type(lst) # "list" THEN FALSE
    ELSE IF expected_shape = <<>> THEN TRUE
    ELSE IF Len(lst.list) # expected_shape[1] THEN FALSE
    ELSE IF Len(expected_shape) = 1 THEN TRUE
    ELSE \A i \in 1..Len(lst.list) : validate_shape_1(lst.list[i], Tail(expected_shape))

\* zip_list_2.py validate_shape: the list, then its first element, then the
\* first element of that, one per dimension; an empty list stays current
RECURSIVE validate_shape_2(_, _)
validate_shape_2(current, expected_shape) ==
    IF expected_shape = <<>> THEN TRUE
    ELSE IF type(current) # "list" THEN FALSE
    ELSE IF Len(current.list) # expected_shape[1] THEN FALSE
    ELSE validate_shape_2(IF current.list # <<>> THEN current.list[1] ELSE current,
                          Tail(expected_shape))

RECURSIVE recursive_zip(_, _, _)
recursive_zip(list1, list2, shape) ==
    IF ~validate_shape_1(list1, shape) \/ ~validate_shape_1(list2, shape)
    THEN Raises("ValueError")
    ELSE IF shape = <<>> \/ Len(shape) = 1 THEN list_zip(list1, list2)
    ELSE LET n == IF Len(list1.list) < Len(list2.list) THEN Len(list1.list)
                  ELSE Len(list2.list)
             parts == [i \in 1..n |-> recursive_zip(list1.list[i], list2.list[i], Tail(shape))]
         IN  IF \E i \in 1..n : parts[i].outcome # "value"
             THEN parts[CHOOSE i \in 1..n :
                           /\ parts[i].outcome # "value"
                           /\ \A j \in 1..(i - 1) : parts[j].outcome = "value"]
             ELSE Value(py_list([i \in 1..n |-> parts[i].value]))

\* a list object iterative_zip created, referred to by its index in objects
Ref(k) == [ref |-> k]
\* the nested list a value is, list objects followed
RECURSIVE resolve(_, _)
resolve(x, heap) ==
    IF type(x) = "ref"
    THEN py_list([i \in 1..Len(heap[x.ref]) |-> resolve(heap[x.ref][i], heap)])
    ELSE x

\* lst[i], i counted from 0
subscript(lst, i) ==
    IF type(lst) # "list" THEN Raises("TypeError")
    ELSE IF i >= Len(lst.list) THEN Raises("IndexError")
    ELSE Value(lst.list[i + 1])

Item(l1, l2, depth, parent, idx) ==
    [l1 |-> l1, l2 |-> l2, depth |-> depth, parent |-> parent, idx |-> idx]

Dims == 0..MaxDim
Shapes == {<<>>} \cup {<<d>> : d \in Dims} \cup {<<d, e>> : d \in Dims, e \in Dims}
\* lists of numbers; lists of such lists and numbers, ragged ones included;
\* lists of lists of one length
Rows(a) == {py_list([i \in 1..n |-> a]) : n \in Dims}
Tables(a) ==
    {py_list(q) : q \in UNION {[1..n -> Rows(a) \cup {a}] : n \in Dims}}
Regular(a) ==
    {py_list([i \in 1..n |-> r]) : n \in Dims, r \in Rows(a)}

ZipInit ==
    /\ zargs \in {[list1 |-> t, list2 |-> r, shape |-> sh] :
                     t \in Tables(py_int(1)), r \in Regular(py_int(2)), sh \in Shapes}
              \cup {[list1 |-> r, list2 |-> t, shape |-> sh] :
                     r \in Regular(py_int(1)), t \in Tables(py_int(2)), sh \in Shapes}
    /\ rec_out = Nothing
    /\ it_pc = "idle"
    /\ queue = <<>>
    /\ objects = <<>>
    /\ result = Nothing
    /\ it_out = Nothing
    /\ NoTransform
    /\ NoWrappers
    /\ NoGenerators

\* recursive_zip(list1, list2, shape)
CallRecursive ==
    /\ rec_out = Nothing
    /\ rec_out' = recursive_zip(zargs.list1, zargs.list2, zargs.shape)
    /\ UNCHANGED <<zargs, it_pc, queue, objects, result, it_out>>
    /\ UNCHANGED <<vars, wvars, gvars>>

\* iterative_zip(list1, list2, shape), up to the loop
CallIterative ==
    /\ it_pc = "idle"
    /\ IF \/ ~validate_shape_2(zargs.list1, zargs.shape)
          \/ ~validate_shape_2(zargs.list2, zargs.shape)
       THEN /\ it_out' = Raises("ValueError")
            /\ it_pc' = "done"
            /\ UNCHANGED <<queue, result>>
       ELSE IF zargs.shape = <<>>
       THEN /\ it_out' = list_zip(zargs.list1, zargs.list2)
            /\ it_pc' = "done"
            /\ UNCHANGED <<queue, result>>
       ELSE /\ result' = py_list(<<>>)
            /\ queue' = <<Item(zargs.list1, zargs.list2, 0, 0, 0)>>
            /\ it_pc' = "loop"
            /\ UNCHANGED it_out
    /\ UNCHANGED <<zargs, rec_out, objects>>
    /\ UNCHANGED <<vars, wvars, gvars>>

\* one turn of `while queue:`
LoopTurn ==
    /\ it_pc = "loop"
    /\ queue # <<>>
    /\ LET item == Head(queue)
           shape == zargs.shape
       IN  IF item.depth = Len(shape) - 1
           THEN LET z == list_zip(item.l1, item.l2)
                IN  IF z.outcome # "value"
                    THEN /\ it_out' = z
                         /\ it_pc' = "done"
                         /\ UNCHANGED <<queue, objects, result>>
                    ELSE /\ IF item.parent = 0
                            THEN result' = z.value /\ UNCHANGED objects
                            ELSE /\ objects' = [objects EXCEPT ![item.parent][item.idx + 1] = z.value]
                                 /\ UNCHANGED result
                         /\ queue' = Tail(queue)
                         /\ UNCHANGED <<it_pc, it_out>>
           ELSE LET k == Len(objects) + 1
                    current_result == [i \in 1..shape[item.depth + 1] |-> py_list(<<>>)]
                    heap == Append(objects, current_result)
                    parts == [i \in 1..shape[item.depth + 1] |->
                                 [l1 |-> subscript(item.l1, i - 1),
                                  l2 |-> subscript(item.l2, i - 1)]]
                    bad == {i \in DOMAIN parts : parts[i].l1.outcome # "value"
                                                    \/ parts[i].l2.outcome # "value"}
                    upto == IF bad = {} THEN Len(parts)
                            ELSE (CHOOSE i \in bad : \A j \in bad : i <= j) - 1
                IN  /\ IF item.parent = 0
                       THEN result' = Ref(k) /\ objects' = heap
                       ELSE /\ objects' = [heap EXCEPT ![item.parent][item.idx + 1] = Ref(k)]
                            /\ UNCHANGED result
                    /\ queue' = Tail(queue) \o
                                   [i \in 1..upto |->
                                       Item(parts[i].l1.value, parts[i].l2.value,
                                            item.depth + 1, k, i - 1)]
                    /\ IF bad = {}
                       THEN UNCHANGED <<it_pc, it_out>>
                       ELSE /\ it_pc' = "done"
                            /\ it_out' = LET p == parts[upto + 1]
                                         IN  IF p.l1.outcome # "value" THEN p.l1 ELSE p.l2
    /\ UNCHANGED <<zargs, rec_out>>
    /\ UNCHANGED <<vars, wvars, gvars>>

\* return result
LoopExit ==
    /\ it_pc = "loop"
    /\ queue = <<>>
    /\ it_out' = Value(resolve(result, objects))
    /\ it_pc' = "done"
    /\ UNCHANGED <<zargs, rec_out, queue, objects, result>>
    /\ UNCHANGED <<vars, wvars, gvars>>

ZipNext ==
    \/ CallRecursive
    \/ CallIterative
    \/ LoopTurn
    \/ LoopExit

ZipSpec == ZipInit /\ [][ZipNext]_allvars

\* C30: once both calls have ended, either both raised ValueError or both
\* returned, and returned the same nested list of pairs.
C30_SameOutcome ==
    (rec_out # Nothing /\ it_out # Nothing) =>
        /\ rec_out.outcome \in {"value", "ValueError"}
        /\ it_out = rec_out

====
